---- MODULE Spec2Model ----
(***************************************************************************)
(* The dependency tree of mako-tree: Tree (lib/tree.js and its earlier     *)
(* revisions) on top of the graph.js Graph and graph-toposort.             *)
(*                                                                         *)
(* A graph is a record [v, e, val]:                                        *)
(*   v    the vertex keys in insertion order (graph.js keeps a Map),       *)
(*   e    the edges <<from, to>> in insertion order,                       *)
(*   val  the File stored for each key.                                    *)
(* Every graph and tree operation is an operator from a graph to a result  *)
(* record [g, err, ret]: the graph it leaves behind, the error it throws   *)
(* ("none" when it returns) and the value it returns.                      *)
(***************************************************************************)
EXTENDS Integers, Sequences, FiniteSets, TLC

VARIABLES variant, vertices, edges, files, copy, last

vars == <<variant, vertices, edges, files, copy, last>>

\* Bounds of the model.
NumIds == 3
MaxEdges == 3
MaxEdgesLoc == 2
MaxEdgesGc == 3
MaxEdgesNode == 2
MaxAnchors == 2
NumCycleIds == 4
MaxCycleEdges == 6
NumPairIds == 2
MaxEdgesPair == 1
NumVinylIds == 2
MaxEdgesVinyl == 1
MaxHistory == 3

\* File ids (uuid strings, or locations in the revisions keyed by path). Their
\* order stands for the order of the keys under JavaScript's <.
Ids == 1..NumIds

Range(s) == {s[i] : i \in 1..Len(s)}

Undefined == [undef |-> TRUE]

Ok(g, ret) == [g |-> g, err |-> "none", ret |-> ret]

Throw(g, e) == [g |-> g, err |-> e, ret |-> Undefined]

\* ------------------------------------------------------------------------
\* graph.js Graph
\* ------------------------------------------------------------------------

NewGraph == [v |-> <<>>, e |-> <<>>, val |-> <<>>]

hasVertex(g, key) == key \in Range(g.v)

vertexValue(g, key) == IF hasVertex(g, key) THEN g.val[key] ELSE Undefined

vertexCount(g) == Len(g.v)

hasEdge(g, from, to) == <<from, to>> \in Range(g.e)

\* graph.addNewVertex(key, value): throws when the key exists.
addNewVertex(g, key, value) ==
  IF hasVertex(g, key)
  THEN Throw(g, "VertexExistsError")
  ELSE Ok([g EXCEPT !.v = Append(g.v, key), !.val = (key :> value) @@ g.val], Undefined)

\* The vertex map without key.
WithoutVertex(g, key) ==
  [g EXCEPT !.v = SelectSeq(g.v, LAMBDA k : k # key),
            !.val = [k \in (DOMAIN g.val) \ {key} |-> g.val[k]]]

\* graph.removeVertex(key): nothing happens for a missing key; throws while an
\* edge is still connected to the vertex.
removeVertex(g, key) ==
  IF ~hasVertex(g, key) THEN Ok(g, Undefined)
  ELSE IF \E ed \in Range(g.e) : ed[1] = key \/ ed[2] = key
       THEN Throw(g, "HasConnectedEdgesError")
       ELSE Ok(WithoutVertex(g, key), Undefined)

\* graph.destroyVertex(key): removes the connected edges, then the vertex.
destroyVertex(g, key) ==
  IF ~hasVertex(g, key) THEN Ok(g, Undefined)
  ELSE Ok(WithoutVertex([g EXCEPT !.e = SelectSeq(g.e, LAMBDA ed : ed[1] # key /\ ed[2] # key)],
                        key), Undefined)

\* graph.addEdge(from, to): an existing edge has its value overwritten (edges
\* carry no value here); a new edge needs both of its vertices.
\* Variant: an edge that is already there is added a second time.
addEdgeTwice(g, from, to) ==
  IF ~hasVertex(g, from) \/ ~hasVertex(g, to)
  THEN Throw(g, "VertexNotExistsError")
  ELSE Ok([g EXCEPT !.e = Append(g.e, <<from, to>>)], Undefined)

addEdge(g, from, to) ==
  IF hasEdge(g, from, to) THEN Ok(g, Undefined)
  ELSE IF ~hasVertex(g, from) \/ ~hasVertex(g, to)
       THEN Throw(g, "VertexNotExistsError")
       ELSE Ok([g EXCEPT !.e = Append(g.e, <<from, to>>)], Undefined)

\* Variant: the edge is removed whichever way it points.
removeEdgeEitherWay(g, from, to) ==
  Ok([g EXCEPT !.e = SelectSeq(g.e, LAMBDA ed : ed # <<from, to>> /\ ed # <<to, from>>)],
     Undefined)

\* graph.removeEdge(from, to): nothing happens for a missing edge.
removeEdge(g, from, to) ==
  Ok([g EXCEPT !.e = SelectSeq(g.e, LAMBDA ed : ed # <<from, to>>)], Undefined)

\* graph.verticesFrom(key) / verticesTo(key): the direct neighbours, in the
\* order their edges were added.
verticesFrom(g, key) ==
  LET out == SelectSeq(g.e, LAMBDA ed : ed[1] = key)
  IN  [i \in 1..Len(out) |-> out[i][2]]

verticesTo(g, key) ==
  LET inc == SelectSeq(g.e, LAMBDA ed : ed[2] = key)
  IN  [i \in 1..Len(inc) |-> inc[i][1]]

outDegree(g, key) == Len(verticesFrom(g, key))

inDegree(g, key) == Len(verticesTo(g, key))

edgeCount(g) == Len(g.e)

\* graph.sources(): the vertices without incoming edges, in vertex order.
sources(g) == SelectSeq(g.v, LAMBDA k : inDegree(g, k) = 0)

\* graph.verticesWithPathFrom(key): depth first along the outgoing edges, every
\* vertex yielded once (the start vertex too, when it lies on a cycle).
RECURSIVE pathFrom(_, _, _)
pathFrom(g, tos, acc) ==
  IF tos = <<>> THEN acc
  ELSE LET to == Head(tos)
       IN  IF to \in acc.done
           THEN pathFrom(g, Tail(tos), acc)
           ELSE pathFrom(g, Tail(tos),
                         pathFrom(g, verticesFrom(g, to),
                                  [done |-> acc.done \cup {to}, out |-> Append(acc.out, to)]))

verticesWithPathFrom(g, key) ==
  pathFrom(g, verticesFrom(g, key), [done |-> {}, out |-> <<>>]).out

\* Variant: the walk along the incoming edges does not consult the set of
\* visited vertices; it is cut off once it has yielded more vertices than the
\* graph has.
RECURSIVE pathToRevisiting(_, _, _)
pathToRevisiting(g, froms, acc) ==
  IF froms = <<>> \/ Len(acc.out) > Len(g.v) THEN acc
  ELSE LET from == Head(froms)
       IN  pathToRevisiting(g, Tail(froms),
                            pathToRevisiting(g, verticesTo(g, from),
                                             [done |-> acc.done \cup {from},
                                              out |-> Append(acc.out, from)]))

\* graph.verticesWithPathTo(key): the same along the incoming edges.
RECURSIVE pathTo(_, _, _)
pathTo(g, froms, acc) ==
  IF froms = <<>> THEN acc
  ELSE LET from == Head(froms)
       IN  IF from \in acc.done
           THEN pathTo(g, Tail(froms), acc)
           ELSE pathTo(g, Tail(froms),
                       pathTo(g, verticesTo(g, from),
                              [done |-> acc.done \cup {from}, out |-> Append(acc.out, from)]))

verticesWithPathTo(g, key) ==
  pathTo(g, verticesTo(g, key), [done |-> {}, out |-> <<>>]).out

\* graph.cycles(): the simple cycles, each reported once from its smallest key
\* s: backtrack(v) extends the point stack by v, reports the stack for every
\* edge back to s, skips keys below s and marked vertices, and unmarks what it
\* marked once a cycle was found below it. st = [point, mark, marked, out].
RECURSIVE backtrack(_, _, _, _)
RECURSIVE backtrackEdges(_, _, _, _, _)
backtrackEdges(g, s, ws, st, found) ==
  IF ws = <<>> THEN [st |-> st, found |-> found]
  ELSE LET w == Head(ws)
       IN  IF w < s THEN backtrackEdges(g, s, Tail(ws), st, found)
           ELSE IF w = s
                THEN backtrackEdges(g, s, Tail(ws),
                                    [st EXCEPT !.out = Append(st.out, st.point)], TRUE)
                ELSE IF w \notin st.mark
                     THEN LET r == backtrack(g, s, w, st)
                          IN  backtrackEdges(g, s, Tail(ws), r.st, found \/ r.found)
                     ELSE backtrackEdges(g, s, Tail(ws), st, found)

RECURSIVE unmark(_, _)
unmark(st, v) ==
  LET u == st.marked[Len(st.marked)]
      st1 == [st EXCEPT !.marked = SubSeq(st.marked, 1, Len(st.marked) - 1),
                        !.mark = st.mark \ {u}]
  IN  IF u = v THEN st1 ELSE unmark(st1, v)

backtrack(g, s, v, st) ==
  LET st1 == [st EXCEPT !.point = Append(st.point, v),
                        !.mark = st.mark \cup {v},
                        !.marked = Append(st.marked, v)]
      r == backtrackEdges(g, s, verticesFrom(g, v), st1, FALSE)
      st2 == IF r.found THEN unmark(r.st, v) ELSE r.st
  IN  [st |-> [st2 EXCEPT !.point = SubSeq(st2.point, 1, Len(st2.point) - 1)],
       found |-> r.found]

RECURSIVE cyclesFrom(_, _, _)
cyclesFrom(g, starts, out) ==
  IF starts = <<>> THEN out
  ELSE cyclesFrom(g, Tail(starts),
                  backtrack(g, Head(starts), Head(starts),
                            [point |-> <<>>, mark |-> {}, marked |-> <<>>, out |-> out]).st.out)

cycles(g) == cyclesFrom(g, g.v, <<>>)

\* ------------------------------------------------------------------------
\* graph-toposort
\* ------------------------------------------------------------------------

\* One vertex n taken from the queue: each edge n -> m is removed from the
\* working copy, and m joins the queue once nothing points at it any more.
RECURSIVE relax(_, _, _, _)
relax(g, n, ms, queue) ==
  IF ms = <<>> THEN [g |-> g, queue |-> queue]
  ELSE LET m == Head(ms)
           g1 == removeEdge(g, n, m).g
       IN  relax(g1, n, Tail(ms), IF inDegree(g1, m) = 0 THEN Append(queue, m) ELSE queue)

RECURSIVE kahn(_, _, _)
kahn(g, queue, sorted) ==
  IF queue = <<>> THEN [g |-> g, sorted |-> sorted]
  ELSE LET n == Head(queue)
           r == relax(g, n, verticesFrom(g, n), Tail(queue))
       IN  kahn(r.g, r.queue, Append(sorted, n))

\* toposort(graph): works on a clone, starts from the sources, and throws when
\* edges are left over (the graph has a cycle).
toposort(g) ==
  LET r == kahn(g, sources(g), <<>>)
  IN  IF edgeCount(r.g) > 0 THEN Throw(g, "CycleError") ELSE Ok(g, r.sorted)

\* ------------------------------------------------------------------------
\* lib/file.js and lib/tree.js
\* ------------------------------------------------------------------------

\* new File(params, tree): the id is the one given in params, or a new uuid
\* (params.id = 0 stands for params without an id, or a path string). fresh
\* tells the File objects constructed by the call in progress from the ones
\* that were there before it: two Files are the same object when they have
\* the same id and neither is fresh.
File(params, uuid) ==
  [id |-> IF params.id # 0 THEN params.id ELSE uuid, entry |-> FALSE, fresh |-> TRUE]

hasFile(g, file) == hasVertex(g, file)

getFile(g, file) == vertexValue(g, file)

size(g) == vertexCount(g)

addFile(g, params, uuid) ==
  LET file == File(params, uuid)
      r == addNewVertex(g, file.id, file)
  IN  IF r.err # "none" THEN r ELSE Ok(r.g, file)

\* The File objects stored for a list of keys.
Values(g, keys) == [i \in 1..Len(keys) |-> getFile(g, keys[i])]

\* Variant: the topological option is ignored.
getFilesUnsorted(g, topological) == Ok(g, Values(g, g.v))

\* Variant: the order is returned even when the sort left edges over.
getFilesPartial(g, topological) ==
  IF topological
  THEN Ok(g, Values(g, kahn(g, sources(g), <<>>).sorted))
  ELSE Ok(g, Values(g, g.v))

getFiles(g, topological) ==
  IF topological
  THEN LET r == toposort(g)
       IN  IF r.err # "none" THEN r ELSE Ok(g, Values(g, r.ret))
  ELSE Ok(g, Values(g, g.v))

\* Variant: force drops the vertex and leaves its edges behind.
removeFileOrphaning(g, node, force) ==
  LET file == getFile(g, node)
  IN  IF file = Undefined THEN Throw(g, "TypeError")
      ELSE IF force THEN Ok(WithoutVertex(g, file.id), Undefined)
                    ELSE removeVertex(g, file.id)

\* Variant: the force option is ignored, every removal destroys the edges.
removeFileForced(g, node, force) ==
  LET file == getFile(g, node)
  IN  IF file = Undefined THEN Throw(g, "TypeError")
      ELSE destroyVertex(g, file.id)

\* Variant: the two branches of the force test are swapped.
removeFileSwapped(g, node, force) ==
  LET file == getFile(g, node)
  IN  IF file = Undefined THEN Throw(g, "TypeError")
      ELSE IF force THEN removeVertex(g, file.id) ELSE destroyVertex(g, file.id)

\* file.path of an undefined file is a TypeError, also inside a debug() call.
removeFile(g, node, force) ==
  LET file == getFile(g, node)
  IN  IF file = Undefined THEN Throw(g, "TypeError")
      ELSE IF force THEN destroyVertex(g, file.id) ELSE removeVertex(g, file.id)

hasDependency(g, parent, child) == hasEdge(g, child, parent)

\* Variant: a missing parent is added to the tree before the edge is made.
addDependencyEnsure(g, parent, child) ==
  LET r0 == IF hasFile(g, parent) THEN Ok(g, Undefined)
            ELSE addFile(g, [id |-> parent], parent)
      r == addEdge(r0.g, child, parent)
  IN  IF r.err # "none" THEN r ELSE Ok(r.g, Undefined)

addDependency(g, parent, child) ==
  LET r == addEdge(g, child, parent)
  IN  IF r.err # "none" THEN r
      ELSE IF getFile(r.g, child) = Undefined \/ getFile(r.g, parent) = Undefined
           THEN Throw(r.g, "TypeError")
           ELSE Ok(r.g, Undefined)

\* Variant: a child nothing depends on any more is removed from the tree.
removeDependencyCleanup(g, parent, child) ==
  LET r == removeEdge(g, child, parent)
  IN  IF getFile(r.g, child) = Undefined \/ getFile(r.g, parent) = Undefined
      THEN Throw(r.g, "TypeError")
      ELSE IF outDegree(r.g, child) = 0 THEN destroyVertex(r.g, child)
           ELSE Ok(r.g, Undefined)

removeDependency(g, parent, child) ==
  LET r == removeEdge(g, child, parent)
  IN  IF getFile(r.g, child) = Undefined \/ getFile(r.g, parent) = Undefined
      THEN Throw(r.g, "TypeError")
      ELSE Ok(r.g, Undefined)

\* Variant: the edges are followed in the direction of the dependants.
dependenciesOfDownstream(g, node, recursive) ==
  LET file == getFile(g, node)
  IN  IF file = Undefined THEN Throw(g, "TypeError")
      ELSE Ok(g, Values(g, IF recursive THEN verticesWithPathFrom(g, file.id)
                                        ELSE verticesFrom(g, file.id)))

dependenciesOf(g, node, recursive) ==
  LET file == getFile(g, node)
  IN  IF file = Undefined THEN Throw(g, "TypeError")
      ELSE Ok(g, Values(g, IF recursive THEN verticesWithPathTo(g, file.id)
                                        ELSE verticesTo(g, file.id)))

hasDependant(g, child, parent) == hasEdge(g, child, parent)

\* Variant: the edge is made in the opposite direction.
addDependantReversed(g, child, parent) ==
  LET r == addEdge(g, parent, child)
  IN  IF r.err # "none" THEN r
      ELSE IF getFile(r.g, child) = Undefined \/ getFile(r.g, parent) = Undefined
           THEN Throw(r.g, "TypeError")
           ELSE Ok(r.g, Undefined)

addDependant(g, child, parent) ==
  LET r == addEdge(g, child, parent)
  IN  IF r.err # "none" THEN r
      ELSE IF getFile(r.g, child) = Undefined \/ getFile(r.g, parent) = Undefined
           THEN Throw(r.g, "TypeError")
           ELSE Ok(r.g, Undefined)

removeDependant(g, child, parent) ==
  LET r == removeEdge(g, child, parent)
  IN  IF getFile(r.g, child) = Undefined \/ getFile(r.g, parent) = Undefined
      THEN Throw(r.g, "TypeError")
      ELSE Ok(r.g, Undefined)

\* Variant: the recursive option is ignored.
dependantsOfDirect(g, node, recursive) ==
  LET file == getFile(g, node)
  IN  IF file = Undefined THEN Throw(g, "TypeError")
      ELSE Ok(g, Values(g, verticesFrom(g, file.id)))

dependantsOf(g, node, recursive) ==
  LET file == getFile(g, node)
  IN  IF file = Undefined THEN Throw(g, "TypeError")
      ELSE Ok(g, Values(g, IF recursive THEN verticesWithPathFrom(g, file.id)
                                        ELSE verticesFrom(g, file.id)))

\* The forEach of prune: the files are force-removed one after the other.
RECURSIVE removeEach(_, _)
removeEach(g, fs) ==
  IF fs = <<>> THEN Ok(g, Undefined)
  ELSE LET r == removeFile(g, Head(fs).id, TRUE)
       IN  IF r.err # "none" THEN r ELSE removeEach(r.g, Tail(fs))

\* Variant: the anchors themselves are not put into the set of files to keep.
pruneDropsAnchors(g, anchors) ==
  LET fs == Values(g, anchors)
  IN  IF \E i \in 1..Len(fs) : fs[i] = Undefined THEN Throw(g, "TypeError")
      ELSE LET deps == UNION {Range(dependenciesOf(g, fs[i].id, TRUE).ret) : i \in 1..Len(fs)}
               sorted == getFiles(g, TRUE)
           IN  IF sorted.err # "none" THEN sorted
               ELSE removeEach(g, SelectSeq(sorted.ret, LAMBDA f : f \notin deps))

\* Variant: only the direct dependencies of the anchors are kept.
pruneDirect(g, anchors) ==
  LET fs == Values(g, anchors)
  IN  IF \E i \in 1..Len(fs) : fs[i] = Undefined THEN Throw(g, "TypeError")
      ELSE LET deps == UNION {{fs[i]} \cup Range(dependenciesOf(g, fs[i].id, FALSE).ret)
                                : i \in 1..Len(fs)}
               sorted == getFiles(g, TRUE)
           IN  IF sorted.err # "none" THEN sorted
               ELSE removeEach(g, SelectSeq(sorted.ret, LAMBDA f : f \notin deps))

\* Variant: the files that depend on an anchor are kept as well.
pruneKeepsDependants(g, anchors) ==
  LET fs == Values(g, anchors)
  IN  IF \E i \in 1..Len(fs) : fs[i] = Undefined THEN Throw(g, "TypeError")
      ELSE LET deps == UNION {{fs[i]} \cup Range(dependenciesOf(g, fs[i].id, TRUE).ret)
                                      \cup Range(Values(g, verticesFrom(g, fs[i].id)))
                                : i \in 1..Len(fs)}
               sorted == getFiles(g, TRUE)
           IN  IF sorted.err # "none" THEN sorted
               ELSE removeEach(g, SelectSeq(sorted.ret, LAMBDA f : f \notin deps))

\* Variant: the files are taken in the order they were added.
pruneUnsorted(g, anchors) ==
  LET fs == Values(g, anchors)
  IN  IF \E i \in 1..Len(fs) : fs[i] = Undefined THEN Throw(g, "TypeError")
      ELSE LET deps == UNION {{fs[i]} \cup Range(dependenciesOf(g, fs[i].id, TRUE).ret)
                                : i \in 1..Len(fs)}
               sorted == getFiles(g, FALSE)
           IN  IF sorted.err # "none" THEN sorted
               ELSE removeEach(g, SelectSeq(sorted.ret, LAMBDA f : f \notin deps))

prune(g, anchors) ==
  LET fs == Values(g, anchors)
  IN  IF \E i \in 1..Len(fs) : fs[i] = Undefined THEN Throw(g, "TypeError")
      ELSE LET deps == UNION {{fs[i]} \cup Range(dependenciesOf(g, fs[i].id, TRUE).ret)
                                : i \in 1..Len(fs)}
               sorted == getFiles(g, TRUE)
           IN  IF sorted.err # "none" THEN sorted
               ELSE removeEach(g, SelectSeq(sorted.ret, LAMBDA f : f \notin deps))

\* Variant: the edge in the opposite direction is asked to be removed.
breakCycleReversed(g, cycle) ==
  LET fs == Values(g, cycle)
      degrees == [i \in 1..Len(fs) |-> outDegree(g, fs[i].id)]
      max == CHOOSE d \in Range(degrees) : \A e \in Range(degrees) : e <= d
      highest == CHOOSE i \in 1..Len(fs) :
                   degrees[i] = max /\ \A j \in 1..(i - 1) : degrees[j] # max
      child == fs[highest]
      parent == IF highest + 1 <= Len(fs) THEN fs[highest + 1] ELSE fs[1]
  IN  removeDependency(g, child.id, parent.id)

\* Variant: the chosen vertex loses all the edges that leave it.
breakCycleAllOut(g, cycle) ==
  LET fs == Values(g, cycle)
      degrees == [i \in 1..Len(fs) |-> outDegree(g, fs[i].id)]
      max == CHOOSE d \in Range(degrees) : \A e \in Range(degrees) : e <= d
      highest == CHOOSE i \in 1..Len(fs) :
                   degrees[i] = max /\ \A j \in 1..(i - 1) : degrees[j] # max
      child == fs[highest]
  IN  Ok([g EXCEPT !.e = SelectSeq(g.e, LAMBDA ed : ed[1] # child.id)], Undefined)

\* Variant: among the vertices of highest out-degree the last one of the cycle
\* is chosen.
breakCycleLast(g, cycle) ==
  LET fs == Values(g, cycle)
      degrees == [i \in 1..Len(fs) |-> outDegree(g, fs[i].id)]
      max == CHOOSE d \in Range(degrees) : \A e \in Range(degrees) : e <= d
      highest == CHOOSE i \in 1..Len(fs) :
                   degrees[i] = max /\ \A j \in (i + 1)..Len(fs) : degrees[j] # max
      child == fs[highest]
      parent == IF highest + 1 <= Len(fs) THEN fs[highest + 1] ELSE fs[1]
  IN  removeDependency(g, parent.id, child.id)

\* One cycle of removeCycles: the edge leaving the first vertex of highest
\* out-degree, towards the next vertex of the cycle, is removed.
breakCycle(g, cycle) ==
  LET fs == Values(g, cycle)
      degrees == [i \in 1..Len(fs) |-> outDegree(g, fs[i].id)]
      max == CHOOSE d \in Range(degrees) : \A e \in Range(degrees) : e <= d
      highest == CHOOSE i \in 1..Len(fs) :
                   degrees[i] = max /\ \A j \in 1..(i - 1) : degrees[j] # max
      child == fs[highest]
      parent == IF highest + 1 <= Len(fs) THEN fs[highest + 1] ELSE fs[1]
  IN  removeDependency(g, parent.id, child.id)

RECURSIVE breakEach(_, _)
breakEach(g, cs) ==
  IF cs = <<>> THEN Ok(g, Undefined)
  ELSE LET r == breakCycle(g, Head(cs))
       IN  IF r.err # "none" THEN r ELSE breakEach(r.g, Tail(cs))

removeCycles(g) == breakEach(g, cycles(g))

\* graph.edges(): the edges grouped by the vertex they leave, the vertices in
\* the order they were added, the edges of one vertex in the order they were
\* added.
RECURSIVE edgesOf(_, _)
edgesOf(g, keys) ==
  IF keys = <<>> THEN <<>>
  ELSE SelectSeq(g.e, LAMBDA ed : ed[1] = Head(keys)) \o edgesOf(g, Tail(keys))

graphEdges(g) == edgesOf(g, g.v)

\* file.clone(tree): a new File object with the properties of the first.
cloneFile(file) == [file EXCEPT !.fresh = TRUE]

\* graph.clone(tr, te): a new graph that gets the vertices, each value mapped
\* by tr, and then the edges, in the order graph.vertices() and graph.edges()
\* give them.
graphClone(g) ==
  [v |-> g.v, e |-> graphEdges(g), val |-> [k \in DOMAIN g.val |-> cloneFile(g.val[k])]]

\* Variant: the copy gets the vertices in the opposite order.
cloneBackwards(g) ==
  Ok(g, [graphClone(g) EXCEPT !.v = [i \in 1..Len(g.v) |-> g.v[Len(g.v) + 1 - i]]])

\* clone(): a new Tree around a clone of the graph.
clone(g) == Ok(g, graphClone(g))

\* ------------------------------------------------------------------------
\* lib/tree.js and lib/file.js: a Tree and its clone
\*
\* ts is the list of the trees there are: the first Tree and, once it was
\* cloned, the clone. A File carries the number of the tree it is linked to
\* (this.tree), the tree it was made for (obj) and its contents. Two entries
\* with the same id and the same obj are one object, and an assignment to a
\* property of it shows in both. A call ends with the trees it leaves and its
\* error.
\* ------------------------------------------------------------------------

Null == [null |-> TRUE]

Buffer(data) == [buffer |-> data]

\* The outcome r of a call on tree t.
Into(ts, t, r) == [ts |-> [ts EXCEPT ![t] = r.g], err |-> r.err]

\* tree.addFile(params) on tree t: new File(params, this).
addFileTo(ts, t, params, uuid) ==
  LET r == addFile(ts[t], params, uuid)
      file == [tree |-> t, obj |-> t, contents |-> Null]
                @@ [r.ret EXCEPT !.fresh = FALSE]
  IN  IF r.err # "none" THEN Into(ts, t, r)
      ELSE Into(ts, t, Ok([r.g EXCEPT !.val[file.id] = file], file))

\* file.addDependency(child) and file.removeDependency(child): the call goes
\* to the tree the File is linked to, with the id of the File.
fileAddDependency(ts, file, child) ==
  Into(ts, file.tree, addDependency(ts[file.tree], file.id, child))

fileRemoveDependency(ts, file, child) ==
  Into(ts, file.tree, removeDependency(ts[file.tree], file.id, child))

\* file.contents = contents: the object changes, wherever it is stored.
setContents(ts, file, contents) ==
  [ts |-> [t \in DOMAIN ts |->
             [ts[t] EXCEPT !.val = [k \in DOMAIN ts[t].val |->
                IF k = file.id /\ ts[t].val[k].obj = file.obj
                THEN [ts[t].val[k] EXCEPT !.contents = contents]
                ELSE ts[t].val[k]]]],
   err |-> "none"]

\* Variant: the clone of a File stays linked to the tree of the first.
cloneFileLinked(file, tree) == [file EXCEPT !.obj = tree]

\* file.clone(tree): a new object, made for tree and linked to it, with a copy
\* of the contents.
cloneFileTo(file, tree) == [file EXCEPT !.obj = tree, !.tree = tree]

\* tree.clone() on the first tree: the clone is tree 2.
cloneTree(ts) ==
  LET g == ts[1]
  IN  [ts |-> <<g, [v |-> g.v, e |-> graphEdges(g),
                    val |-> [k \in DOMAIN g.val |-> cloneFileTo(g.val[k], 2)]]>>,
       err |-> "none"]

\* The earlier removeCycles: removeDependency(files[1], files[0]) for every
\* cycle. A cycle of one file has no files[1]: removeEdge finds no such edge,
\* and the path of the undefined parent is a TypeError.
breakCycleFirst(g, cycle) ==
  LET fs == Values(g, cycle)
  IN  IF Len(fs) < 2 THEN Throw(g, "TypeError")
      ELSE removeDependency(g, fs[2].id, fs[1].id)

RECURSIVE breakEachFirst(_, _)
breakEachFirst(g, cs) ==
  IF cs = <<>> THEN Ok(g, Undefined)
  ELSE LET r == breakCycleFirst(g, Head(cs))
       IN  IF r.err # "none" THEN r ELSE breakEachFirst(r.g, Tail(cs))

removeCyclesFirst(g) == breakEachFirst(g, cycles(g))

\* ------------------------------------------------------------------------
\* lib/file.js: the File built on Vinyl, in a Tree of lib/tree.js
\*
\* A path is a stem and an extension. Beside its id a File has its history
\* (the paths it had, the last one being its path), its contents and a date,
\* modified, that the caller may give it.
\* ------------------------------------------------------------------------

Path(stem, ext) == [stem |-> stem, ext |-> ext]

\* extension(basename) and Vinyl's replaceExt.
extension(path) == path.ext

replaceExt(path, ext) == [path EXCEPT !.ext = ext]

VinylIds == 1..NumVinylIds

Paths == {Path("index", "jade"), Path("index", "html")}

Types == {"jade", "html"}

Dates == {[time |-> 1]}

\* The ids that read as an ISO 8601 date and time, the text JSON gives a Date.
IsoIds == {NumVinylIds}

\* new File(params, tree) for params with a path.
newFile(params, uuid) ==
  [history |-> <<params.path>>, contents |-> Null, modified |-> Null]
    @@ File(params, uuid)

\* tree.addFile(params) with the File of lib/file.js.
addFileVinyl(g, params, uuid) ==
  LET file == newFile(params, uuid)
      r == addNewVertex(g, file.id, file)
  IN  IF r.err # "none" THEN r ELSE Ok(r.g, file)

\* file.path: the last entry of the history.
currentPath(file) == file.history[Len(file.history)]

\* Variant: only the path the file has now is looked at.
fileHasPathNow(file, path) == currentPath(file) = path

\* file.hasPath(path)
fileHasPath(file, path) == path \in Range(file.history)

\* tree.findFile(path): the first File, in the order the files were added,
\* that has the path; nothing is returned when there is none.
findFile(g, path) ==
  LET hits == SelectSeq(g.v, LAMBDA k : fileHasPath(g.val[k], path))
  IN  Ok(g, IF hits = <<>> THEN Undefined ELSE g.val[Head(hits)])

\* file.type, file.initialPath and file.initialType
type(file) == extension(currentPath(file))

initialPath(file) == file.history[1]

initialType(file) == extension(initialPath(file))

\* Variant: the new path takes the place of the last one.
setTypeInPlace(file, t) ==
  [file EXCEPT !.history = [@ EXCEPT ![Len(@)] = replaceExt(currentPath(file), t)]]

\* file.type = t: Vinyl replaces the extension of the path, and a path that
\* differs from the current one is pushed on the history.
setType(file, t) ==
  LET path == replaceExt(currentPath(file), t)
  IN  IF path # currentPath(file)
      THEN [file EXCEPT !.history = Append(@, path)]
      ELSE file

\* Variant: the history is emptied and the contents are left.
resetAll(file) == [file EXCEPT !.history = <<>>]

\* file.reset(): history.splice(1) and contents = null.
reset(file) == [file EXCEPT !.history = SubSeq(@, 1, 1), !.contents = Null]

\* A string of a JSON text: its characters, and whether the ISO date pattern
\* of the reviver matches them.
JString(text, iso) == [text |-> text, iso |-> iso]

\* JSON.stringify of an id, of a path, of a Date (its ISO text; the time
\* stands for the characters) and of the contents (a Buffer gives an object
\* with its type and its data).
idJSON(id) == JString(id, id \in IsoIds)

pathJSON(path) == JString(path, FALSE)

dateJSON(date) == IF date = Null THEN Null ELSE JString(date.time, TRUE)

bufferJSON(contents) ==
  IF contents = Null THEN Null ELSE [type |-> "Buffer", data |-> contents.buffer]

\* file.toJSON() as JSON.stringify writes it: the properties of a clone of
\* the File without its tree.
fileJSON(file) ==
  [id |-> idJSON(file.id),
   history |-> [i \in 1..Len(file.history) |-> pathJSON(file.history[i])],
   _contents |-> bufferJSON(file.contents),
   modified |-> dateJSON(file.modified)]

\* tree.toJSON(): the files as getFiles() lists them and the two ends of each
\* edge of graph.edges().
toJSON(g) == [files |-> getFiles(g, FALSE).ret, dependencies |-> graphEdges(g)]

\* tree.toString(): JSON.stringify(tree)
toString(g) ==
  LET o == toJSON(g)
  IN  [files |-> [i \in 1..Len(o.files) |-> fileJSON(o.files[i])],
       dependencies |-> [j \in 1..Len(o.dependencies) |->
                           <<idJSON(o.dependencies[j][1]), idJSON(o.dependencies[j][2])>>]]

\* A string and a Date as JSON.parse hands them on. Every Date is an object
\* of its own: obj tells one from the other.
StringValue(text) == [kind |-> "string", text |-> text, obj |-> 0]

DateValue(text, obj) == [kind |-> "date", text |-> text, obj |-> obj]

\* reviver(key, value) on a string: a Date when the ISO pattern matches.
reviveString(s, obj) == IF s.iso THEN DateValue(s.text, obj) ELSE StringValue(s.text)

\* reviver(key, value) on the contents and on the date of a file.
reviveBuffer(c) == IF c = Null THEN Null ELSE Buffer(c.data)

reviveDate(d) == IF d = Null THEN Null ELSE reviveString(d, 0)

\* JSON.parse(input, reviver)
parse(input) ==
  LET n == Len(input.files)
  IN  [files |-> [i \in 1..n |->
         [id |-> reviveString(input.files[i].id, i),
          history |-> [h \in 1..Len(input.files[i].history) |->
                         reviveString(input.files[i].history[h], 0)],
          _contents |-> reviveBuffer(input.files[i]._contents),
          modified |-> reviveDate(input.files[i].modified)]],
       dependencies |-> [j \in 1..Len(input.dependencies) |->
         <<reviveString(input.dependencies[j][1], n + 2 * j - 1),
           reviveString(input.dependencies[j][2], n + 2 * j)>>]]

\* File.fromObject(input, tree): a File with the id, the history, the
\* contents and the other properties of input.
fromObject(o) ==
  [id |-> o.id, entry |-> FALSE, fresh |-> TRUE,
   history |-> o.history, contents |-> o._contents, modified |-> o.modified]

\* graph.addNewEdge(from, to): throws for an edge that exists and for a
\* vertex that does not.
addNewEdge(g, from, to) ==
  IF hasEdge(g, from, to) THEN Throw(g, "EdgeExistsError")
  ELSE IF ~hasVertex(g, from) \/ ~hasVertex(g, to)
       THEN Throw(g, "VertexNotExistsError")
       ELSE Ok([g EXCEPT !.e = Append(g.e, <<from, to>>)], Undefined)

\* parsed.files.forEach(...) and parsed.dependencies.forEach(...)
RECURSIVE addParsedFiles(_, _)
addParsedFiles(g, fs) ==
  IF fs = <<>> THEN Ok(g, Undefined)
  ELSE LET file == fromObject(Head(fs))
           r == addNewVertex(g, file.id, file)
       IN  IF r.err # "none" THEN r ELSE addParsedFiles(r.g, Tail(fs))

RECURSIVE addParsedDependencies(_, _)
addParsedDependencies(g, ds) ==
  IF ds = <<>> THEN Ok(g, Undefined)
  ELSE LET r == addNewEdge(g, Head(ds)[1], Head(ds)[2])
       IN  IF r.err # "none" THEN r ELSE addParsedDependencies(r.g, Tail(ds))

\* Tree.fromString(input): the tree it returns, or the error it throws.
fromString(input) ==
  LET parsed == parse(input)
      r == addParsedFiles(NewGraph, parsed.files)
  IN  IF r.err # "none" THEN r
      ELSE LET q == addParsedDependencies(r.g, parsed.dependencies)
           IN  IF q.err # "none" THEN q ELSE Ok(q.g, q.g)

\* The tree after the File stored under key was changed to file.
WithFile(g, key, file) == Ok([g EXCEPT !.val[key] = file], Undefined)

\* ------------------------------------------------------------------------
\* The earlier Tree keyed by location, with entry files
\* ------------------------------------------------------------------------

FileLoc(location, entry) == [id |-> location, entry |-> entry, fresh |-> TRUE]

\* The earlier File with the properties its constructor sets by dirty(), type
\* and analyzed, and a contents property that is not set yet.
initialTypePlain(file) == extension(file.id)

\* file.dirty()
dirty(file) == [file EXCEPT !.type = initialTypePlain(file), !.analyzed = FALSE]

newFilePlain(location, entry) ==
  dirty([type |-> Undefined, analyzed |-> Undefined, contents |-> Undefined]
          @@ FileLoc(location, entry))

\* tree.addFile(location) with these Files.
addFilePlain(g, location, entry) ==
  LET r == IF ~hasFile(g, location)
           THEN addNewVertex(g, location, newFilePlain(location, entry))
           ELSE Ok(g, Undefined)
  IN  IF r.err # "none" THEN r ELSE Ok(r.g, getFile(r.g, location))

addFileLoc(g, location, entry) ==
  LET r == IF ~hasFile(g, location)
           THEN addNewVertex(g, location, FileLoc(location, entry))
           ELSE Ok(g, Undefined)
  IN  IF r.err # "none" THEN r ELSE Ok(r.g, getFile(r.g, location))

removeFileLoc(g, location) == removeVertex(g, location)

\* Variant: a new File is made for the child on every call.
addDependencyLocClobber(g, parent, child) ==
  LET r0 == IF ~hasFile(g, child) THEN addFileLoc(g, child, FALSE)
            ELSE Ok([g EXCEPT !.val = [k \in DOMAIN g.val |->
                       IF k = child THEN FileLoc(child, FALSE) ELSE g.val[k]]], Undefined)
      r == addEdge(r0.g, child, parent)
  IN  IF r.err # "none" THEN r ELSE Ok(r.g, getFile(r.g, child))

\* Variant: the parent is looked up before the child is added.
addDependencyLocChecked(g, parent, child) ==
  IF ~hasFile(g, parent) THEN Throw(g, "VertexNotExistsError")
  ELSE LET r0 == IF ~hasFile(g, child) THEN addFileLoc(g, child, FALSE) ELSE Ok(g, Undefined)
           r == addEdge(r0.g, child, parent)
       IN  IF r.err # "none" THEN r ELSE Ok(r.g, getFile(r.g, child))

addDependencyLoc(g, parent, child) ==
  LET r0 == IF ~hasFile(g, child) THEN addFileLoc(g, child, FALSE) ELSE Ok(g, Undefined)
      r == addEdge(r0.g, child, parent)
  IN  IF r.err # "none" THEN r ELSE Ok(r.g, getFile(r.g, child))

removeDependencyLoc(g, parent, child) == removeEdge(g, child, parent)

RECURSIVE removeEachLoc(_, _, _)
removeEachLoc(g, parent, children) ==
  IF children = <<>> THEN Ok(g, Undefined)
  ELSE removeEachLoc(removeDependencyLoc(g, parent, Head(children)).g, parent, Tail(children))

\* dependenciesOf(parent) is graph.verticesTo(parent), which throws for a key
\* that is not in the graph.
removeDependenciesLoc(g, parent) ==
  IF ~hasVertex(g, parent) THEN Throw(g, "VertexNotExistsError")
  ELSE removeEachLoc(g, parent, verticesTo(g, parent))

\* graph.sinks(): the vertices without outgoing edges, in vertex order.
sinks(g) == SelectSeq(g.v, LAMBDA k : outDegree(g, k) = 0)

\* graph.hasPath(from, to): a path of one or more edges.
hasPath(g, from, to) == to \in Range(verticesWithPathFrom(g, from))

\* Variant: every sink is an entry, flagged or not.
getEntriesUnflagged(g) == sinks(g)

\* getEntries(): the sinks whose File is flagged as an entry.
getEntries(g) == SelectSeq(sinks(g), LAMBDA k : g.val[k].entry)

\* Variant: the path is looked for from the entry to the file.
getEntriesFromReversed(g, from) ==
  Ok(g, SelectSeq(getEntries(g), LAMBDA end : from = end \/ hasPath(g, end, from)))

\* getEntries({ from }): the entries that are from itself or that a path leads
\* to from it.
getEntriesFrom(g, from) ==
  Ok(g, SelectSeq(getEntries(g), LAMBDA end : from = end \/ hasPath(g, from, end)))

\* The ways a call of getEntries can end; from = 0 stands for a call without
\* the option. What graph.hasPath does for a from that is not in the graph is
\* left open: it finds no path, or it throws.
getEntriesResults(g, from) ==
  IF from = 0 THEN {Ok(g, getEntries(g))}
  ELSE IF hasVertex(g, from) \/ getEntries(g) = <<>> THEN {getEntriesFrom(g, from)}
  ELSE {getEntriesFrom(g, from), Throw(g, "VertexNotExistsError")}

RECURSIVE destroyEach(_, _)
destroyEach(g, keys) ==
  IF keys = <<>> THEN Ok(g, Undefined)
  ELSE destroyEach(destroyVertex(g, Head(keys)).g, Tail(keys))

\* prune(entries): given is FALSE when the call passes no entries.
pruneLoc(g, given, entries) ==
  LET es == IF given THEN entries ELSE getEntries(g)
      sorted == toposort(g)
  IN  IF sorted.err # "none" THEN sorted
      ELSE destroyEach(g, SelectSeq(sorted.ret, LAMBDA file :
             ~\E i \in 1..Len(es) : es[i] = file \/ hasPath(g, file, es[i])))

\* ------------------------------------------------------------------------
\* The Tree with automatic cleanup: edges run from the parent to the child
\* ------------------------------------------------------------------------

FileGc(location) == [id |-> location, entry |-> FALSE, fresh |-> TRUE]

\* graph.ensureVertex(key, value): adds the vertex unless the key exists.
ensureVertex(g, key, value) ==
  IF hasVertex(g, key) THEN Ok(g, Undefined) ELSE addNewVertex(g, key, value)

addFileGc(g, location) ==
  LET r == ensureVertex(g, location, FileGc(location))
  IN  Ok(r.g, getFile(r.g, location))

\* Variant: the file is removed together with its edges.
removeFileGcForced(g, location) == destroyVertex(g, location)

removeFileGc(g, location) == removeVertex(g, location)

hasDependencyGc(g, parent, child) == hasEdge(g, parent, child)

addDependencyGc(g, parent, child) ==
  LET r0 == IF ~hasFile(g, child) THEN addFileGc(g, child) ELSE Ok(g, Undefined)
      r == addEdge(r0.g, parent, child)
  IN  IF r.err # "none" THEN r ELSE Ok(r.g, getFile(r.g, child))

\* graph.inDegree(child) throws for a key that is not in the graph; a child
\* nothing depends on any more is removed with removeFile.
removeDependencyGc(g, parent, child) ==
  LET r == removeEdge(g, parent, child)
  IN  IF ~hasVertex(r.g, child) THEN Throw(r.g, "VertexNotExistsError")
      ELSE IF inDegree(r.g, child) = 0 THEN removeFileGc(r.g, child)
           ELSE Ok(r.g, Undefined)

\* Variant: the dependency on the old parent is removed first.
moveFirstRemoves(g, from, to, child) == removeDependencyGc(g, from, child)

\* moveDependency: its first and its second statement.
moveFirst(g, from, to, child) == addDependencyGc(g, to, child)

\* Variant: the dependency is removed from the new parent.
moveSecondWrongParent(g, from, to, child) == removeDependencyGc(g, to, child)

moveSecond(g, from, to, child) == removeDependencyGc(g, from, child)

\* ------------------------------------------------------------------------
\* The first Tree class: nodes with data, edges made with createEdge
\* ------------------------------------------------------------------------

\* graph.addVertex(key, value): sets the value of an existing vertex.
addVertex(g, key, value) ==
  IF hasVertex(g, key)
  THEN Ok([g EXCEPT !.val = [k \in DOMAIN g.val |-> IF k = key THEN value ELSE g.val[k]]],
          Undefined)
  ELSE addNewVertex(g, key, value)

\* graph.createEdge(from, to): vertices that are missing are added with an
\* undefined value.
createEdge(g, from, to) ==
  IF hasEdge(g, from, to) THEN Ok(g, Undefined)
  ELSE addEdge(ensureVertex(ensureVertex(g, from, Undefined).g, to, Undefined).g, from, to)

addNode(g, key) == addVertex(g, key, FileGc(key))

removeNode(g, key) == removeVertex(g, key)

addDependencyNode(g, parent, child) == createEdge(g, parent, child)

\* dependantsOf(child) is graph.verticesTo(child), which throws for a key that
\* is not in the graph.
removeDependencyNode(g, parent, child) ==
  LET r == removeEdge(g, parent, child)
  IN  IF ~hasVertex(r.g, child) THEN Throw(r.g, "VertexNotExistsError")
      ELSE IF Len(verticesTo(r.g, child)) = 0 THEN removeNode(r.g, child)
           ELSE Ok(r.g, Undefined)

moveFirstNode(g, from, to, child) == removeDependencyNode(g, from, child)

moveSecondNode(g, from, to, child) == addDependencyNode(g, to, child)

\* ------------------------------------------------------------------------
\* The state machine: one tree, one call at a time
\* ------------------------------------------------------------------------

\* The tree as a call finds it: no File is fresh any more.
Cur ==
  [v |-> vertices, e |-> edges,
   val |-> [k \in DOMAIN files |-> [files[k] EXCEPT !.fresh = FALSE]]]

\* No call is in progress.
Idle == [op |-> "idle", args |-> <<>>, err |-> "none", ret |-> Undefined, pre |-> NewGraph]

EdgeBound ==
  IF variant = "id" THEN MaxEdges
  ELSE IF variant = "loc" THEN MaxEdgesLoc
  ELSE IF variant = "gc" THEN MaxEdgesGc
  ELSE IF variant = "node" THEN MaxEdgesNode
  ELSE IF variant = "vinyl" THEN MaxEdgesVinyl
  ELSE MaxCycleEdges

\* A call that ends with result r; last records the call, the tree it found
\* and how it ended, until the caller has taken the result.
Do(op, args, r) ==
  /\ last.op = "idle"
  /\ Len(r.g.e) <= EdgeBound
  /\ vertices' = r.g.v
  /\ edges' = r.g.e
  /\ files' = r.g.val
  /\ last' = [op |-> op, args |-> args, err |-> r.err, ret |-> r.ret, pre |-> Cur]
  /\ UNCHANGED <<variant, copy>>

Params == [id : 0..NumIds]

Anchors == UNION {[1..n -> Ids] : n \in 0..MaxAnchors}

Init ==
  /\ variant \in {"id", "loc"}
  /\ vertices = <<>>
  /\ edges = <<>>
  /\ files = <<>>
  /\ copy = Undefined
  /\ last = Idle

AddFile ==
  /\ variant = "id"
  /\ \E params \in Params :
       \E uuid \in (IF params.id = 0 THEN Ids \ Range(vertices) ELSE {params.id}) :
         Do("addFile", <<params.id>>, addFile(Cur, params, uuid))

RemoveFile ==
  /\ variant = "id"
  /\ \E node \in Ids, force \in BOOLEAN :
       Do("removeFile", <<node, force>>, removeFile(Cur, node, force))

AddDependency ==
  /\ variant = "id"
  /\ \E parent \in Ids, child \in Ids :
       Do("addDependency", <<parent, child>>, addDependency(Cur, parent, child))

RemoveDependency ==
  /\ variant = "id"
  /\ \E parent \in Ids, child \in Ids :
       Do("removeDependency", <<parent, child>>, removeDependency(Cur, parent, child))

AddDependant ==
  /\ variant = "id"
  /\ \E child \in Ids, parent \in Ids :
       Do("addDependant", <<child, parent>>, addDependant(Cur, child, parent))

RemoveDependant ==
  /\ variant = "id"
  /\ \E child \in Ids, parent \in Ids :
       Do("removeDependant", <<child, parent>>, removeDependant(Cur, child, parent))

GetFiles ==
  /\ variant \in {"id", "cyc", "cyc1"}
  /\ \E topological \in BOOLEAN :
       Do("getFiles", <<topological>>, getFiles(Cur, topological))

DependenciesOf ==
  /\ variant = "id"
  /\ \E node \in Ids, recursive \in BOOLEAN :
       Do("dependenciesOf", <<node, recursive>>, dependenciesOf(Cur, node, recursive))

DependantsOf ==
  /\ variant = "id"
  /\ \E node \in Ids, recursive \in BOOLEAN :
       Do("dependantsOf", <<node, recursive>>, dependantsOf(Cur, node, recursive))

Clone ==
  /\ variant = "id"
  /\ Do("clone", <<>>, clone(Cur))

Prune ==
  /\ variant = "id"
  /\ \E anchors \in Anchors :
       Do("prune", anchors, prune(Cur, anchors))

RemoveCycles ==
  /\ variant \in {"id", "cyc"}
  /\ Do("removeCycles", <<>>, removeCycles(Cur))

RemoveCyclesFirst ==
  /\ variant = "cyc1"
  /\ Do("removeCycles", <<>>, removeCyclesFirst(Cur))

AddFileLoc ==
  /\ variant = "loc"
  /\ \E location \in Ids, entry \in BOOLEAN :
       Do("addFile", <<location, entry>>, addFileLoc(Cur, location, entry))

RemoveFileLoc ==
  /\ variant = "loc"
  /\ \E location \in Ids :
       Do("removeFile", <<location>>, removeFileLoc(Cur, location))

AddDependencyLoc ==
  /\ variant = "loc"
  /\ \E parent \in Ids, child \in Ids :
       Do("addDependency", <<parent, child>>, addDependencyLoc(Cur, parent, child))

RemoveDependencyLoc ==
  /\ variant = "loc"
  /\ \E parent \in Ids, child \in Ids :
       Do("removeDependency", <<parent, child>>, removeDependencyLoc(Cur, parent, child))

RemoveDependenciesLoc ==
  /\ variant = "loc"
  /\ \E parent \in Ids :
       Do("removeDependencies", <<parent>>, removeDependenciesLoc(Cur, parent))

GetEntriesLoc ==
  /\ variant = "loc"
  /\ \E from \in 0..NumIds :
       \E r \in getEntriesResults(Cur, from) :
         Do("getEntries", <<from>>, r)

PruneLoc ==
  /\ variant = "loc"
  /\ \E given \in BOOLEAN :
       \E entries \in (IF given THEN Anchors ELSE {<<>>}) :
         Do("prune", <<given, entries>>, pruneLoc(Cur, given, entries))

AddFileGc ==
  /\ variant = "gc"
  /\ \E location \in Ids :
       Do("addFile", <<location>>, addFileGc(Cur, location))

RemoveFileGc ==
  /\ variant = "gc"
  /\ \E location \in Ids :
       Do("removeFile", <<location>>, removeFileGc(Cur, location))

AddDependencyGc ==
  /\ variant = "gc"
  /\ \E parent \in Ids, child \in Ids :
       Do("addDependency", <<parent, child>>, addDependencyGc(Cur, parent, child))

RemoveDependencyGc ==
  /\ variant = "gc"
  /\ \E parent \in Ids, child \in Ids :
       Do("removeDependency", <<parent, child>>, removeDependencyGc(Cur, parent, child))

\* The first statement of a call of moveDependency. When it throws the call
\* is over; otherwise the call is between its two statements.
MoveBegin(r, from, to, child) ==
  Do(IF r.err # "none" THEN "moveDependency" ELSE "moving", <<from, to, child>>, r)

\* The second statement of the call in progress.
MoveEnd(r) ==
  /\ vertices' = r.g.v
  /\ edges' = r.g.e
  /\ files' = r.g.val
  /\ last' = [last EXCEPT !.op = "moveDependency", !.err = r.err, !.ret = r.ret]
  /\ UNCHANGED <<variant, copy>>

MoveDependencyGc ==
  /\ variant = "gc"
  /\ \E from \in Ids, to \in Ids, child \in Ids :
       MoveBegin(moveFirst(Cur, from, to, child), from, to, child)

MoveDependencyGcEnd ==
  /\ variant = "gc"
  /\ last.op = "moving"
  /\ MoveEnd(LET r == moveSecond([v |-> vertices, e |-> edges, val |-> files],
                                 last.args[1], last.args[2], last.args[3])
             IN  [r EXCEPT !.ret = Undefined])

AddNode ==
  /\ variant = "node"
  /\ \E key \in Ids :
       Do("addNode", <<key>>, addNode(Cur, key))

RemoveNode ==
  /\ variant = "node"
  /\ \E key \in Ids :
       Do("removeNode", <<key>>, removeNode(Cur, key))

AddDependencyNode ==
  /\ variant = "node"
  /\ \E parent \in Ids, child \in Ids :
       Do("addDependency", <<parent, child>>, addDependencyNode(Cur, parent, child))

RemoveDependencyNode ==
  /\ variant = "node"
  /\ \E parent \in Ids, child \in Ids :
       Do("removeDependency", <<parent, child>>, removeDependencyNode(Cur, parent, child))

MoveDependencyNode ==
  /\ variant = "node"
  /\ \E from \in Ids, to \in Ids, child \in Ids :
       MoveBegin(moveFirstNode(Cur, from, to, child), from, to, child)

MoveDependencyNodeEnd ==
  /\ variant = "node"
  /\ last.op = "moving"
  /\ MoveEnd(moveSecondNode([v |-> vertices, e |-> edges, val |-> files],
                            last.args[1], last.args[2], last.args[3]))

\* The caller has taken the result of the call; the tree stays as the call
\* left it, and with no call in progress no File is fresh.
Return ==
  /\ last.op \notin {"idle", "moving"}
  /\ last' = Idle
  /\ files' = Cur.val
  /\ UNCHANGED <<variant, vertices, edges, copy>>

\* The trees there are in the run with a clone.
Trees ==
  IF copy = Undefined
  THEN <<[v |-> vertices, e |-> edges, val |-> files]>>
  ELSE <<[v |-> vertices, e |-> edges, val |-> files], copy>>

PairIds == 1..NumPairIds

\* A call in the run with a clone; args[1] is the tree it was made on, or the
\* tree that holds the File it was made on.
DoPair(op, args, r) ==
  /\ variant = "pair"
  /\ \A t \in DOMAIN r.ts : Len(r.ts[t].e) <= MaxEdgesPair
  /\ vertices' = r.ts[1].v
  /\ edges' = r.ts[1].e
  /\ files' = r.ts[1].val
  /\ copy' = IF Len(r.ts) = 2 THEN r.ts[2] ELSE Undefined
  /\ last' = [op |-> op, args |-> args, err |-> r.err, ret |-> Undefined, pre |-> NewGraph]
  /\ UNCHANGED variant

AddFilePair ==
  \E t \in DOMAIN Trees, id \in PairIds :
    DoPair("addFile", <<t, id>>, addFileTo(Trees, t, [id |-> id], id))

RemoveFilePair ==
  \E t \in DOMAIN Trees, node \in PairIds, force \in BOOLEAN :
    DoPair("removeFile", <<t, node, force>>, Into(Trees, t, removeFile(Trees[t], node, force)))

AddDependencyPair ==
  \E t \in DOMAIN Trees, parent \in PairIds, child \in PairIds :
    DoPair("addDependency", <<t, parent, child>>,
           Into(Trees, t, addDependency(Trees[t], parent, child)))

RemoveDependencyPair ==
  \E t \in DOMAIN Trees, parent \in PairIds, child \in PairIds :
    DoPair("removeDependency", <<t, parent, child>>,
           Into(Trees, t, removeDependency(Trees[t], parent, child)))

FileAddDependency ==
  \E t \in DOMAIN Trees :
    \E k \in Range(Trees[t].v), child \in PairIds :
      DoPair("file.addDependency", <<t, k, child>>,
             fileAddDependency(Trees, Trees[t].val[k], child))

FileRemoveDependency ==
  \E t \in DOMAIN Trees :
    \E k \in Range(Trees[t].v), child \in PairIds :
      DoPair("file.removeDependency", <<t, k, child>>,
             fileRemoveDependency(Trees, Trees[t].val[k], child))

SetContents ==
  \E t \in DOMAIN Trees :
    \E k \in Range(Trees[t].v), contents \in {Null, Buffer("a")} :
      DoPair("file.contents", <<t, k, contents>>,
             setContents(Trees, Trees[t].val[k], contents))

CloneTree ==
  /\ copy = Undefined
  /\ DoPair("clone", <<1>>, cloneTree(Trees))

VinylParams == [id : {0} \cup VinylIds, path : Paths]

AddFileVinyl ==
  /\ variant = "vinyl"
  /\ \E params \in VinylParams :
       \E uuid \in (IF params.id = 0 THEN VinylIds \ (IsoIds \cup Range(vertices))
                    ELSE {params.id}) :
         Do("addFile", <<params.id, params.path>>, addFileVinyl(Cur, params, uuid))

AddDependencyVinyl ==
  /\ variant = "vinyl"
  /\ \E parent \in VinylIds, child \in VinylIds :
       Do("addDependency", <<parent, child>>, addDependency(Cur, parent, child))

FindFile ==
  /\ variant = "vinyl"
  /\ \E path \in Paths :
       Do("findFile", <<path>>, findFile(Cur, path))

SetType ==
  /\ variant = "vinyl"
  /\ \E k \in Range(vertices), t \in Types :
       /\ Len(setType(Cur.val[k], t).history) <= MaxHistory
       /\ Do("file.type", <<k, t>>, WithFile(Cur, k, setType(Cur.val[k], t)))

SetContentsVinyl ==
  /\ variant = "vinyl"
  /\ \E k \in Range(vertices), contents \in {Null, Buffer("a")} :
       Do("file.contents", <<k, contents>>,
          WithFile(Cur, k, [Cur.val[k] EXCEPT !.contents = contents]))

SetModified ==
  /\ variant = "vinyl"
  /\ \E k \in Range(vertices), date \in Dates :
       Do("file.modified", <<k, date>>,
          WithFile(Cur, k, [Cur.val[k] EXCEPT !.modified = date]))

\* Tree.fromString(tree.toString()) for the tree as it is; the tree is left as
\* it is and the new tree is returned.
FromString ==
  /\ variant = "vinyl"
  /\ LET r == fromString(toString(Cur))
     IN  Do("fromString", <<>>, [g |-> Cur, err |-> r.err, ret |-> r.ret])

Reset ==
  /\ variant = "vinyl"
  /\ \E k \in Range(vertices) :
       Do("file.reset", <<k>>, WithFile(Cur, k, reset(Cur.val[k])))

AddFilePlain ==
  /\ variant = "plain"
  /\ \E location \in Paths :
       Do("addFile", <<location>>, addFilePlain(Cur, location, FALSE))

SetTypePlain ==
  /\ variant = "plain"
  /\ \E k \in Range(vertices), t \in Types :
       Do("file.type", <<k, t>>, WithFile(Cur, k, [Cur.val[k] EXCEPT !.type = t]))

SetAnalyzed ==
  /\ variant = "plain"
  /\ \E k \in Range(vertices) :
       Do("file.analyzed", <<k>>, WithFile(Cur, k, [Cur.val[k] EXCEPT !.analyzed = TRUE]))

SetContentsPlain ==
  /\ variant = "plain"
  /\ \E k \in Range(vertices), contents \in {Null, Buffer("a")} :
       Do("file.contents", <<k, contents>>,
          WithFile(Cur, k, [Cur.val[k] EXCEPT !.contents = contents]))

Dirty ==
  /\ variant = "plain"
  /\ \E k \in Range(vertices) :
       Do("file.dirty", <<k>>, WithFile(Cur, k, dirty(Cur.val[k])))

NextId ==
  \/ Return
  \/ AddFile
  \/ RemoveFile
  \/ AddDependency
  \/ RemoveDependency
  \/ AddDependant
  \/ RemoveDependant
  \/ GetFiles
  \/ DependenciesOf
  \/ DependantsOf
  \/ Clone
  \/ Prune
  \/ RemoveCycles

NextLoc ==
  \/ Return
  \/ AddFileLoc
  \/ RemoveFileLoc
  \/ AddDependencyLoc
  \/ RemoveDependencyLoc
  \/ RemoveDependenciesLoc
  \/ GetEntriesLoc
  \/ PruneLoc

Next ==
  \/ Return
  \/ AddFile
  \/ RemoveFile
  \/ AddDependency
  \/ RemoveDependency
  \/ AddDependant
  \/ RemoveDependant
  \/ GetFiles
  \/ DependenciesOf
  \/ DependantsOf
  \/ Clone
  \/ Prune
  \/ RemoveCycles
  \/ AddFileLoc
  \/ RemoveFileLoc
  \/ AddDependencyLoc
  \/ RemoveDependencyLoc
  \/ RemoveDependenciesLoc
  \/ GetEntriesLoc
  \/ PruneLoc

Spec == Init /\ [][Next]_vars

\* The tree of lib/tree.js alone.
InitId == Init /\ variant = "id"

SpecTree == InitId /\ [][NextId]_vars

\* The tree keyed by location alone.
InitLoc == Init /\ variant = "loc"

SpecLoc == InitLoc /\ [][NextLoc]_vars

\* The Tree with automatic cleanup alone.
InitGc ==
  /\ variant = "gc"
  /\ vertices = <<>>
  /\ edges = <<>>
  /\ files = <<>>
  /\ copy = Undefined
  /\ last = Idle

NextGc ==
  \/ Return
  \/ AddFileGc
  \/ RemoveFileGc
  \/ AddDependencyGc
  \/ RemoveDependencyGc
  \/ MoveDependencyGc
  \/ MoveDependencyGcEnd

SpecGc == InitGc /\ [][NextGc]_vars

\* The first Tree class alone.
InitNode ==
  /\ variant = "node"
  /\ vertices = <<>>
  /\ edges = <<>>
  /\ files = <<>>
  /\ copy = Undefined
  /\ last = Idle

NextNode ==
  \/ Return
  \/ AddNode
  \/ RemoveNode
  \/ AddDependencyNode
  \/ RemoveDependencyNode
  \/ MoveDependencyNode
  \/ MoveDependencyNodeEnd

SpecNode == InitNode /\ [][NextNode]_vars

\* A Tree of lib/tree.js with the Files of lib/file.js.
InitVinyl ==
  /\ variant = "vinyl"
  /\ vertices = <<>>
  /\ edges = <<>>
  /\ files = <<>>
  /\ copy = Undefined
  /\ last = Idle

NextVinyl ==
  \/ Return
  \/ AddFileVinyl
  \/ AddDependencyVinyl
  \/ FindFile
  \/ SetType
  \/ SetContentsVinyl
  \/ SetModified
  \/ FromString
  \/ Reset

SpecVinyl == InitVinyl /\ [][NextVinyl]_vars

\* The Files of both kinds, each in its Tree.
InitFiles ==
  /\ variant \in {"vinyl", "plain"}
  /\ vertices = <<>>
  /\ edges = <<>>
  /\ files = <<>>
  /\ copy = Undefined
  /\ last = Idle

NextFiles ==
  \/ Return
  \/ AddFileVinyl
  \/ AddDependencyVinyl
  \/ FindFile
  \/ SetType
  \/ SetContentsVinyl
  \/ SetModified
  \/ FromString
  \/ Reset
  \/ AddFilePlain
  \/ SetTypePlain
  \/ SetAnalyzed
  \/ SetContentsPlain
  \/ Dirty

SpecFiles == InitFiles /\ [][NextFiles]_vars

\* A Tree of lib/tree.js and its clone.
InitPair ==
  /\ variant = "pair"
  /\ vertices = <<>>
  /\ edges = <<>>
  /\ files = <<>>
  /\ copy = Undefined
  /\ last = Idle

NextPair ==
  \/ AddFilePair
  \/ RemoveFilePair
  \/ AddDependencyPair
  \/ RemoveDependencyPair
  \/ FileAddDependency
  \/ FileRemoveDependency
  \/ SetContents
  \/ CloneTree

SpecPair == InitPair /\ [][NextPair]_vars

\* removeCycles on the trees a sequence of addFile and addDependency calls
\* builds: up to NumCycleIds files, added in rising or falling order of their
\* ids, and up to MaxCycleEdges dependencies between them, added in rising or
\* falling order.
Before(a, b) == a[1] < b[1] \/ (a[1] = b[1] /\ a[2] < b[2])

RECURSIVE InOrder(_, _)
InOrder(S, rising) ==
  IF S = {} THEN <<>>
  ELSE LET x == CHOOSE a \in S : \A b \in S \ {a} :
                  IF rising THEN Before(a, b) ELSE Before(b, a)
       IN  <<x>> \o InOrder(S \ {x}, rising)

InitDrawn ==
  /\ \E n \in 1..NumCycleIds, rising \in BOOLEAN :
       vertices = [i \in 1..n |-> IF rising THEN i ELSE n + 1 - i]
  /\ \E E \in SUBSET (Range(vertices) \X Range(vertices)), rising \in BOOLEAN :
       /\ Cardinality(E) <= MaxCycleEdges
       /\ edges = InOrder(E, rising)
  /\ files = [k \in Range(vertices) |-> [id |-> k, entry |-> FALSE, fresh |-> FALSE]]
  /\ copy = Undefined
  /\ last = Idle

InitCycles == InitDrawn /\ variant = "cyc"

NextCycles ==
  \/ Return
  \/ GetFiles
  \/ RemoveCycles

SpecCycles == InitCycles /\ [][NextCycles]_vars

InitCyclesFirst == InitDrawn /\ variant = "cyc1"

NextCyclesFirst ==
  \/ Return
  \/ GetFiles
  \/ RemoveCyclesFirst

SpecCyclesFirst == InitCyclesFirst /\ [][NextCyclesFirst]_vars

\* ------------------------------------------------------------------------
\* Properties
\* ------------------------------------------------------------------------

\* The tree as it is now, and as the last call found it.
Post == [v |-> vertices, e |-> edges, val |-> files]

Pre == last.pre

\* The keys with a path of one or more edges to key: its recursive
\* dependencies, as the least fixed point over the edge set.
RECURSIVE Grow(_, _)
Grow(g, S) ==
  LET T == S \cup {ed[1] : ed \in {x \in Range(g.e) : x[2] \in S}}
  IN  IF T = S THEN S ELSE Grow(g, T)

DepsOf(g, key) == Grow(g, {ed[1] : ed \in {x \in Range(g.e) : x[2] = key}})

Acyclic(g) == \A k \in Range(g.v) : k \notin DepsOf(g, k)

Incident(g, key) == {ed \in Range(g.e) : ed[1] = key \/ ed[2] = key}

\* The position of the File with id key in a list of Files (0 when missing).
Pos(fs, key) ==
  IF \E i \in 1..Len(fs) : fs[i].id = key
  THEN CHOOSE i \in 1..Len(fs) : fs[i].id = key
  ELSE 0

\* C1: in every reachable state, after calls that return and calls that throw,
\* both endpoints of every dependency edge are files of the tree.
C1_EdgesHaveEndpoints ==
  /\ \A ed \in Range(edges) : ed[1] \in Range(vertices) /\ ed[2] \in Range(vertices)
  /\ DOMAIN files = Range(vertices)

\* C1 witness: a file with edges attached has just been removed by force.
C1_Witness ==
  /\ variant = "id"
  /\ last.op = "removeFile"
  /\ last.args[2]
  /\ last.err = "none"
  /\ Incident(Pre, last.args[1]) # {}
  /\ edges # <<>>

\* C2: prune(anchors) on an acyclic tree, with every anchor in the tree,
\* returns, and the files left are exactly the anchors and their recursive
\* dependencies as they were before the call.
C2_PruneKeepsReachable ==
  (last.op = "prune" /\ Acyclic(Pre) /\ Range(last.args) \subseteq Range(Pre.v))
    => /\ last.err = "none"
       /\ Range(vertices) =
            Range(last.args) \cup UNION {DepsOf(Pre, a) : a \in Range(last.args)}

\* C2 witness: prune removed a file that depended on a file it kept.
C2_Witness ==
  /\ last.op = "prune"
  /\ last.err = "none"
  /\ \E k \in Range(Pre.v) \ Range(vertices) :
       \E d \in Range(vertices) : <<d, k>> \in Range(Pre.e)

\* C3: getFiles() lists every file once, and getFiles({topological: true}) on
\* an acyclic tree lists every file once with each dependency before the
\* files that depend on it.
C3_TopologicalOrder ==
  /\ (last.op = "getFiles" /\ ~last.args[1])
       => /\ last.err = "none"
          /\ Len(last.ret) = size(Pre)
          /\ \A k \in Range(Pre.v) : \E i \in 1..Len(last.ret) : last.ret[i] = Pre.val[k]
  /\ (last.op = "getFiles" /\ last.args[1] /\ Acyclic(Pre))
       => /\ last.err = "none"
          /\ Len(last.ret) = size(Pre)
          /\ \A k \in Range(Pre.v) : \E i \in 1..Len(last.ret) : last.ret[i] = Pre.val[k]
          /\ \A ed \in Range(Pre.e) : Pos(last.ret, ed[1]) < Pos(last.ret, ed[2])

\* C3 witness: a topological listing that differs from the insertion order.
C3_Witness ==
  /\ last.op = "getFiles"
  /\ last.args[1]
  /\ last.err = "none"
  /\ Len(Pre.e) >= 2
  /\ \E i \in 1..Len(last.ret) : last.ret[i].id # Pre.v[i]

\* C4: getFiles({topological: true}) on a tree with a dependency cycle throws
\* and leaves the tree as it was.
C4_CycleThrows ==
  (last.op = "getFiles" /\ last.args[1] /\ ~Acyclic(Pre))
    => /\ last.err = "CycleError"
       /\ Post = Pre

\* C4 witness: the request failed on a tree where one file is off the cycle.
C4_Witness ==
  /\ last.op = "getFiles"
  /\ last.err = "CycleError"
  /\ \E k \in Range(Pre.v) : k \notin DepsOf(Pre, k) /\ Incident(Pre, k) # {}

\* C5 (as claimed): addFile for an id that is already in the tree does not
\* throw, returns the File that is there and leaves the tree unchanged.
C5_AddFileIdempotent ==
  (last.op = "addFile" /\ last.args[1] \in Range(Pre.v))
    => /\ last.err = "none"
       /\ last.ret = Pre.val[last.args[1]]
       /\ Post = Pre

\* C6: removeFile without force on a file with an edge throws and leaves the
\* tree unchanged.
C6_RemoveNeedsForce ==
  (last.op = "removeFile" /\ ~last.args[2] /\ Incident(Pre, last.args[1]) # {})
    => /\ last.err # "none"
       /\ Post = Pre

\* C6 witness: such a removal was refused.
C6_Witness ==
  /\ last.op = "removeFile"
  /\ ~last.args[2]
  /\ last.err = "HasConnectedEdgesError"
  /\ Len(edges) >= 2

\* C7: removeFile with force removes the file and exactly the edges attached
\* to it; the other files, their order and the other edges stay.
C7_ForceRemoveFrame ==
  (last.op = "removeFile" /\ last.args[2] /\ last.args[1] \in Range(Pre.v))
    => /\ last.err = "none"
       /\ Range(vertices) = Range(Pre.v) \ {last.args[1]}
       /\ \A i, j \in 1..Len(vertices) :
            i < j => \E m, n \in 1..Len(Pre.v) :
                       m < n /\ Pre.v[m] = vertices[i] /\ Pre.v[n] = vertices[j]
       /\ Range(edges) = Range(Pre.e) \ Incident(Pre, last.args[1])
       /\ Len(edges) = Cardinality(Range(edges))
       /\ \A k \in Range(vertices) : files[k] = Pre.val[k]

\* C7 witness: a parent was removed by force and its dependency is still there.
C7_Witness ==
  /\ last.op = "removeFile"
  /\ last.args[2]
  /\ last.err = "none"
  /\ \E d \in Range(vertices) : <<d, last.args[1]>> \in Range(Pre.e)
  /\ edges # <<>>

\* C8: addDependency(parent, child) with a parent that is not in the tree
\* throws and creates no edge.
C8_MissingParentThrows ==
  (last.op = "addDependency" /\ last.args[1] \notin Range(Pre.v))
    => /\ last.err # "none"
       /\ edges = Pre.e

\* C8 witness: the call failed for a child that is in the tree.
C8_Witness ==
  /\ last.op = "addDependency"
  /\ last.args[1] \notin Range(Pre.v)
  /\ last.args[2] \in Range(Pre.v)
  /\ last.err = "VertexNotExistsError"
  /\ edges # <<>>

\* C9 (as claimed): addDependency(parent, child) with parent in the tree adds a
\* missing child and then the edge; a child that is in the tree keeps its File.
C9_AddDependencyCreatesChild ==
  (last.op = "addDependency" /\ last.args[1] \in Range(Pre.v))
    => /\ last.err = "none"
       /\ hasFile(Post, last.args[2])
       /\ hasDependency(Post, last.args[1], last.args[2])
       /\ last.args[2] \in Range(Pre.v) => files[last.args[2]] = Pre.val[last.args[2]]

\* C9 (amended): the above holds for the tree keyed by location, whose
\* addDependency creates a missing child. In lib/tree.js a missing child makes
\* the call throw and leave the tree unchanged, and a call with both files in
\* the tree adds the edge and keeps the child's File.
C9_AddDependencyByVariant ==
  /\ variant = "loc" => C9_AddDependencyCreatesChild
  /\ (variant = "id" /\ last.op = "addDependency" /\ last.args[1] \in Range(Pre.v))
       => IF last.args[2] \in Range(Pre.v)
          THEN /\ last.err = "none"
               /\ hasDependency(Post, last.args[1], last.args[2])
               /\ files = Pre.val
               /\ vertices = Pre.v
          ELSE /\ last.err = "VertexNotExistsError"
               /\ Post = Pre

\* C9 witness: the tree keyed by location has created the child of a new edge.
C9_Witness ==
  /\ variant = "loc"
  /\ last.op = "addDependency"
  /\ last.err = "none"
  /\ last.args[2] \notin Range(Pre.v)
  /\ files[last.args[2]].fresh
  /\ hasDependency(Post, last.args[1], last.args[2])

\* C10: hasDependant(child, parent) equals hasDependency(parent, child), a
\* one-way dependency is not seen in the reverse direction, and
\* addDependant / removeDependant end as addDependency / removeDependency do:
\* the same tree, the same error.
C10_DependantMirrorsDependency ==
  /\ \A c \in Ids, p \in Ids :
       /\ hasDependant(Post, c, p) = hasDependency(Post, p, c)
       /\ (hasDependency(Post, p, c) /\ ~hasDependency(Post, c, p)) => ~hasDependant(Post, p, c)
       /\ addDependant(Cur, c, p) = addDependency(Cur, p, c)
       /\ removeDependant(Cur, c, p) = removeDependency(Cur, p, c)
  /\ last.op = "addDependant"
       => LET r == addDependency(Pre, last.args[2], last.args[1])
          IN  r.g = Post /\ r.err = last.err
  /\ last.op = "removeDependant"
       => LET r == removeDependency(Pre, last.args[2], last.args[1])
          IN  r.g = Post /\ r.err = last.err

\* C10 witness: addDependant has made a one-way dependency.
C10_Witness ==
  /\ last.op = "addDependant"
  /\ last.err = "none"
  /\ hasDependency(Post, last.args[2], last.args[1])
  /\ ~hasDependency(Post, last.args[1], last.args[2])
  /\ last.args[1] # last.args[2]

\* C11 (as claimed): in the Tree with automatic cleanup, after
\* removeDependency(parent, child) on a dependency of the tree the edge is
\* gone, child is in the tree exactly when another file still depends on it,
\* and every other file is still there.
C11_GcRemovesOrphanedChild ==
  (variant = "gc" /\ last.op = "removeDependency"
     /\ last.args[1] # last.args[2]
     /\ hasDependencyGc(Pre, last.args[1], last.args[2]))
    => /\ ~hasDependencyGc(Post, last.args[1], last.args[2])
       /\ hasFile(Post, last.args[2]) <=> (\E ed \in Range(edges) : ed[2] = last.args[2])
       /\ Range(Pre.v) \ {last.args[2]} \subseteq Range(vertices)

\* C13 (as claimed): while moveDependency(from, to, child) is between its two
\* statements, with from depending on child, to in the tree and the three
\* files distinct, child is in
\* the tree with a dependant, the new one included; when the call is over
\* child is in the tree with the File it had before.
C13_MoveKeepsChild ==
  (last.op \in {"moving", "moveDependency"}
     /\ <<last.args[1], last.args[3]>> \in Range(Pre.e)
     /\ last.args[2] \in Range(Pre.v)
     /\ Cardinality({last.args[1], last.args[2], last.args[3]}) = 3)
    => /\ last.op = "moving"
            => /\ last.args[3] \in Range(vertices)
               /\ <<last.args[2], last.args[3]>> \in Range(edges)
       /\ last.op = "moveDependency"
            => /\ last.err = "none"
               /\ last.args[3] \in Range(vertices)
               /\ files[last.args[3]] = Pre.val[last.args[3]]

\* C14: in the Tree with automatic cleanup, moveDependency(from, to, child)
\* with from depending on child, to in the tree and from # to returns with to
\* depending on child, from no longer depending on it, child and every other
\* file still in the tree and every other dependency unchanged.
C14_MoveTransfers ==
  (variant = "gc" /\ last.op = "moveDependency"
     /\ hasDependencyGc(Pre, last.args[1], last.args[3])
     /\ hasFile(Pre, last.args[2])
     /\ last.args[1] # last.args[2])
    => /\ last.err = "none"
       /\ hasDependencyGc(Post, last.args[2], last.args[3])
       /\ ~hasDependencyGc(Post, last.args[1], last.args[3])
       /\ hasFile(Post, last.args[3])
       /\ vertices = Pre.v
       /\ files = Pre.val
       /\ Range(edges) \ {<<last.args[2], last.args[3]>>}
            = Range(Pre.e) \ {<<last.args[1], last.args[3]>>, <<last.args[2], last.args[3]>>}

\* C14 witness: the dependency on c was moved from b to a, which depends on b.
C14_Witness ==
  /\ variant = "gc"
  /\ last.op = "moveDependency"
  /\ last.err = "none"
  /\ hasDependencyGc(Pre, last.args[1], last.args[3])
  /\ ~hasDependencyGc(Pre, last.args[2], last.args[3])
  /\ hasDependencyGc(Post, last.args[2], last.args[1])
  /\ hasDependencyGc(Post, last.args[2], last.args[3])
  /\ Cardinality({last.args[1], last.args[2], last.args[3]}) = 3

\* C12: in the trees without automatic cleanup, removeDependency(parent, child)
\* takes away the edge from child to parent and nothing else: the files, their
\* File objects and the other edges are as before, also for a child left
\* without dependants; removeDependencies(parent) does the same for every
\* edge into parent.
C12_RemoveOnlyEdge ==
  /\ (variant \in {"id", "loc"} /\ last.op = "removeDependency")
       => /\ vertices = Pre.v
          /\ files = Pre.val
          /\ Range(edges) = Range(Pre.e) \ {<<last.args[2], last.args[1]>>}
          /\ Len(edges) = Cardinality(Range(edges))
  /\ (variant = "loc" /\ last.op = "removeDependencies")
       => /\ vertices = Pre.v
          /\ files = Pre.val
          /\ Range(edges) = {ed \in Range(Pre.e) : ed[2] # last.args[1]}
          /\ Len(edges) = Cardinality(Range(edges))

\* C12 witness: the only dependant of a child was taken away, another edge
\* is still there.
C12_Witness ==
  /\ variant = "id"
  /\ last.op = "removeDependency"
  /\ last.err = "none"
  /\ <<last.args[2], last.args[1]>> \in Range(Pre.e)
  /\ \A ed \in Range(edges) : ed[1] # last.args[2]
  /\ last.args[2] \in Range(vertices)
  /\ edges # <<>>

\* C19: a prune that returned, called again with the same anchors (or again
\* without any), returns and leaves files and edges as the first call did.
C19_PruneIdempotent ==
  /\ (variant = "id" /\ last.op = "prune" /\ last.err = "none")
       => LET r == prune(Post, last.args)
          IN  r.err = "none" /\ r.g = Post
  /\ (variant = "loc" /\ last.op = "prune" /\ last.err = "none")
       => LET r == pruneLoc(Post, last.args[1], last.args[2])
          IN  r.err = "none" /\ r.g = Post

\* C19 witness: the first call removed a file and kept an anchor with a
\* dependency.
C19_Witness ==
  /\ variant = "id"
  /\ last.op = "prune"
  /\ last.err = "none"
  /\ Len(vertices) < Len(Pre.v)
  /\ \E i \in 1..Len(last.args) : DepsOf(Post, last.args[i]) # {}

\* C20 (as claimed): prune() without entries on an acyclic tree removes
\* exactly the files that are not flagged as an entry and have no path to a
\* file flagged as an entry; no file flagged as an entry is removed.
C20_PruneKeepsEntries ==
  (variant = "loc" /\ last.op = "prune" /\ ~last.args[1] /\ Acyclic(Pre))
    => /\ last.err = "none"
       /\ Range(vertices) =
            {k \in Range(Pre.v) :
               \/ Pre.val[k].entry
               \/ \E e \in Range(Pre.v) : Pre.val[e].entry /\ k \in DepsOf(Pre, e)}

\* The keys that can be reached from key by a path of one or more edges: its
\* recursive dependants, as the least fixed point over the edge set.
RECURSIVE GrowUp(_, _)
GrowUp(g, S) ==
  LET T == S \cup {ed[2] : ed \in {x \in Range(g.e) : x[1] \in S}}
  IN  IF T = S THEN S ELSE GrowUp(g, T)

UsersOf(g, key) == GrowUp(g, {ed[2] : ed \in {x \in Range(g.e) : x[1] = key}})

\* The ids of a list of Files.
IdsOf(fs) == {fs[i].id : i \in 1..Len(fs)}

\* C15: for a file x of the tree, dependenciesOf(x) returns the Files with an
\* edge into x and dependenciesOf(x, {recursive: true}) the Files with a path
\* of one or more edges to x; dependantsOf does the same along the edges out
\* of x. The Files returned are the ones stored in the tree.
C15_DependencyQueries ==
  (last.op \in {"dependenciesOf", "dependantsOf"} /\ last.args[1] \in Range(Pre.v))
    => /\ last.err = "none"
       /\ \A i \in 1..Len(last.ret) : last.ret[i] = Pre.val[last.ret[i].id]
       /\ IdsOf(last.ret) =
            IF last.op = "dependenciesOf"
            THEN IF last.args[2]
                 THEN DepsOf(Pre, last.args[1])
                 ELSE {ed[1] : ed \in {x \in Range(Pre.e) : x[2] = last.args[1]}}
            ELSE IF last.args[2]
                 THEN UsersOf(Pre, last.args[1])
                 ELSE {ed[2] : ed \in {x \in Range(Pre.e) : x[1] = last.args[1]}}

\* C15 witness: a recursive query returned a file that is no direct neighbour.
C15_Witness ==
  /\ last.op = "dependenciesOf"
  /\ last.args[2]
  /\ last.err = "none"
  /\ \E i \in 1..Len(last.ret) : <<last.ret[i].id, last.args[1]>> \notin Range(Pre.e)

\* C16: on a tree with a cycle the recursive dependenciesOf and dependantsOf
\* of a file of the tree return, list no File twice and leave the tree as it
\* was.
C16_RecursiveQueriesOnCycles ==
  (last.op \in {"dependenciesOf", "dependantsOf"} /\ last.args[2]
     /\ last.args[1] \in Range(Pre.v) /\ ~Acyclic(Pre))
    => /\ last.err = "none"
       /\ \A i, j \in 1..Len(last.ret) : last.ret[i] = last.ret[j] => i = j
       /\ Post = Pre

\* C16 witness: the file asked about lies on a cycle of three files and is
\* part of its own result.
C16_Witness ==
  /\ last.op = "dependenciesOf"
  /\ last.args[2]
  /\ last.err = "none"
  /\ last.args[1] \in IdsOf(last.ret)
  /\ Len(last.ret) = 3

\* C17 (as claimed): a call of removeCycles() on any tree returns and leaves
\* a tree without a cycle, on which getFiles({topological: true}) returns.
C17_RemoveCyclesMakesAcyclic ==
  last.op = "removeCycles"
    => /\ last.err = "none"
       /\ Acyclic(Post)
       /\ getFiles(Post, TRUE).err = "none"

\* C18: a call of removeCycles() on a tree with a cycle returns with at least
\* one edge fewer, no new edge and the same files, so that calls repeated
\* until no cycle is left number at most as many as there are edges.
C18_RemoveCyclesRemovesEdge ==
  (variant \in {"id", "cyc"} /\ last.op = "removeCycles" /\ ~Acyclic(Pre))
    => /\ last.err = "none"
       /\ Len(edges) < Len(Pre.e)
       /\ Range(edges) \subseteq Range(Pre.e)
       /\ vertices = Pre.v
       /\ files = Pre.val

\* C18 witness: the call removed two edges from cycles that share an edge and
\* left other edges in place.
C18_Witness ==
  /\ variant = "cyc"
  /\ last.op = "removeCycles"
  /\ last.err = "none"
  /\ Len(edges) + 2 <= Len(Pre.e)
  /\ \E c, d \in Range(cycles(Pre)) :
       /\ c # d
       /\ \E i \in 1..(Len(c) - 1), j \in 1..(Len(d) - 1) :
            <<c[i], c[i + 1]>> = <<d[j], d[j + 1]>>
  /\ edges # <<>>

C22_EntriesFrom ==
  (variant = "loc" /\ last.op = "getEntries" /\ last.args[1] \in Range(Pre.v))
    => /\ last.err = "none"
       /\ last.ret = SelectSeq(getEntries(Pre), LAMBDA e :
            e = last.args[1] \/ last.args[1] \in DepsOf(Pre, e))
       /\ Post = Pre

\* C22 witness: an entry that depends on f only through another file is
\* returned.
C22_Witness ==
  /\ variant = "loc"
  /\ last.op = "getEntries"
  /\ last.args[1] \in Range(Pre.v)
  /\ last.err = "none"
  /\ \E e \in Range(last.ret) :
       /\ e # last.args[1]
       /\ <<last.args[1], e>> \notin Range(Pre.e)

\* C26 (as claimed): adding a dependency that is already there fails with a
\* duplicate-edge error and leaves the tree unchanged.
C26_DuplicateDependencyThrows ==
  (/\ variant = "id"
   /\ \/ last.op = "addDependency" /\ hasEdge(Pre, last.args[2], last.args[1])
      \/ last.op = "addDependant" /\ hasEdge(Pre, last.args[1], last.args[2]))
    => last.err # "none" /\ Post = Pre

\* C26 (amended): adding a dependency that is already there, by addDependency
\* or by addDependant, returns normally and leaves the tree unchanged; no
\* ordered pair of files ever has more than one edge.
C26_DuplicateDependencyIgnored ==
  /\ \A i, j \in 1..Len(edges) : edges[i] = edges[j] => i = j
  /\ (/\ variant = "id"
      /\ \/ last.op = "addDependency" /\ hasEdge(Pre, last.args[2], last.args[1])
         \/ last.op = "addDependant" /\ hasEdge(Pre, last.args[1], last.args[2]))
       => last.err = "none" /\ Post = Pre

\* C26 witness: addDependant repeats a dependency that addDependency made before.
C26_Witness ==
  /\ variant = "id"
  /\ last.op = "addDependant"
  /\ hasEdge(Pre, last.args[1], last.args[2])
  /\ last.args[1] # last.args[2]
  /\ Len(Pre.e) >= 2

\* C27 (as claimed): removeDependency(parent, child) with both files in the
\* tree and no such dependency fails with an error and leaves the tree
\* unchanged.
C27_MissingDependencyThrows ==
  (/\ variant = "id"
   /\ last.op = "removeDependency"
   /\ hasVertex(Pre, last.args[1])
   /\ hasVertex(Pre, last.args[2])
   /\ ~hasEdge(Pre, last.args[2], last.args[1]))
    => last.err # "none" /\ Post = Pre

\* C27 (amended): removeDependency(parent, child) with both files in the tree
\* and no such dependency returns normally and leaves the tree unchanged, the
\* opposite dependency included.
C27_MissingDependencyIgnored ==
  (/\ variant = "id"
   /\ last.op = "removeDependency"
   /\ hasVertex(Pre, last.args[1])
   /\ hasVertex(Pre, last.args[2])
   /\ ~hasEdge(Pre, last.args[2], last.args[1]))
    => last.err = "none" /\ Post = Pre

\* C27 witness: the dependency that is removed is missing while the opposite
\* one is there.
C27_Witness ==
  /\ variant = "id"
  /\ last.op = "removeDependency"
  /\ last.err = "none"
  /\ ~hasEdge(Pre, last.args[2], last.args[1])
  /\ hasEdge(Pre, last.args[1], last.args[2])

\* The ids of a list of Files, in the order of the list.
IdSeq(fs) == [i \in 1..Len(fs) |-> fs[i].id]

\* What getFiles answers on a tree, as ids: the error and the order.
FilesOrder(g, topological) ==
  LET r == getFiles(g, topological)
  IN  [err |-> r.err, ids |-> IF r.err = "none" THEN IdSeq(r.ret) ELSE <<>>]

\* C23: clone() returns a tree of its own, all of whose File objects are new,
\* with the file ids, the size, the set of dependency edges and the getFiles()
\* order (plain and topological) of the original, which it leaves unchanged.
C23_CloneIsEqual ==
  (variant = "id" /\ last.op = "clone")
    => /\ last.err = "none"
       /\ Post = Pre
       /\ \A k \in Range(last.ret.v) :
            last.ret.val[k].fresh /\ last.ret.val[k].id = Pre.val[k].id
       /\ Range(last.ret.v) = Range(Pre.v)
       /\ size(last.ret) = size(Pre)
       /\ Range(last.ret.e) = Range(Pre.e)
       /\ Len(last.ret.e) = Len(Pre.e)
       /\ \A topological \in BOOLEAN :
            FilesOrder(last.ret, topological) = FilesOrder(Pre, topological)

\* C23 witness: the clone of a tree whose edges were not added in the order
\* of the files they leave, and whose topological order is not the order of
\* addition.
C23_Witness ==
  /\ variant = "id"
  /\ last.op = "clone"
  /\ Len(Pre.v) = 3
  /\ last.ret.e # Pre.e
  /\ FilesOrder(Pre, TRUE).err = "none"
  /\ FilesOrder(Pre, TRUE).ids # Pre.v

\* C24: once the tree is cloned, a call on one of the two trees, or on a File
\* held by one of them (a delegating method or an assignment to its contents),
\* leaves the files, the files' properties and the edges of the other tree
\* unchanged, in both directions; cloning leaves the first tree unchanged, and
\* each File is linked to the tree that holds it and is an object made for it.
C24_CloneIsIndependent ==
  [][variant = "pair" =>
       /\ \A k \in DOMAIN files' : files'[k].tree = 1 /\ files'[k].obj = 1
       /\ copy' # Undefined =>
            \A k \in DOMAIN copy'.val : copy'.val[k].tree = 2 /\ copy'.val[k].obj = 2
       /\ last'.op = "clone" => UNCHANGED <<vertices, edges, files>>
       /\ (copy # Undefined /\ last'.args[1] = 1) => UNCHANGED copy
       /\ (copy # Undefined /\ last'.args[1] = 2) => UNCHANGED <<vertices, edges, files>>]_vars

\* C24 witness: addDependency on a File of the clone gave the clone a
\* dependency between two files that the first tree holds as well and does
\* not have, after the contents of a File of the first tree were set.
C24_Witness ==
  /\ variant = "pair"
  /\ last.op = "file.addDependency"
  /\ last.args[1] = 2
  /\ last.err = "none"
  /\ <<last.args[3], last.args[2]>> \in Range(copy.e)
  /\ <<last.args[3], last.args[2]>> \notin Range(edges)
  /\ Range(vertices) = PairIds
  /\ Range(copy.v) = PairIds
  /\ \E k \in PairIds : files[k].contents # copy.val[k].contents

\* C28: findFile(path) returns a File of the tree that has path as its
\* current path or as an earlier path of its history, and returns undefined
\* exactly when no File of the tree has; it raises nothing and leaves the tree
\* unchanged.
C28_FindFile ==
  (variant = "vinyl" /\ last.op = "findFile")
    => /\ last.err = "none"
       /\ Post = Pre
       /\ last.ret = Undefined <=>
            \A k \in Range(Pre.v) : last.args[1] \notin Range(Pre.val[k].history)
       /\ last.ret # Undefined =>
            /\ last.ret.id \in Range(Pre.v)
            /\ last.ret = Pre.val[last.ret.id]
            /\ last.args[1] \in Range(last.ret.history)

\* C28 witness: the File found has the path only as an earlier path.
C28_Witness ==
  /\ variant = "vinyl"
  /\ last.op = "findFile"
  /\ last.ret # Undefined
  /\ currentPath(last.ret) # last.args[1]
  /\ Len(Pre.v) = 2

\* s is the beginning of t.
IsPrefix(s, t) == Len(s) <= Len(t) /\ SubSeq(t, 1, Len(s)) = s

\* C29: the first entry of a File's history, and with it initialType, is the
\* same after every call as before it, whatever types are set and however
\* often the File is reset; setting a type keeps every entry of the history
\* and, when the type differs from the current one, appends the path with the
\* new type; no call but reset removes an entry.
C29_OriginalPathKept ==
  variant = "vinyl"
    => \A k \in Range(Pre.v) \cap Range(vertices) :
         /\ files[k].history # <<>>
         /\ initialPath(files[k]) = initialPath(Pre.val[k])
         /\ initialType(files[k]) = initialType(Pre.val[k])
         /\ last.op # "file.reset" => IsPrefix(Pre.val[k].history, files[k].history)
         /\ (last.op = "file.type" /\ last.args[1] = k)
              => /\ type(files[k]) = last.args[2]
                 /\ files[k].history =
                      IF type(Pre.val[k]) = last.args[2]
                      THEN Pre.val[k].history
                      ELSE Append(Pre.val[k].history,
                                  replaceExt(currentPath(Pre.val[k]), last.args[2]))

\* C29 witness: the type was set a second time, back to the initial type, and
\* the history has three entries.
C29_Witness ==
  /\ variant = "vinyl"
  /\ last.op = "file.type"
  /\ Len(files[last.args[1]].history) = 3
  /\ Len(Pre.val[last.args[1]].history) = 2
  /\ type(files[last.args[1]]) = initialType(files[last.args[1]])

\* The File a call was made on, after the call and before it.
After == files[last.args[1]]

Prior == Pre.val[last.args[1]]

\* C30 (as claimed): after dirty(), or reset() as it is called in lib/file.js,
\* the history is cut to its first entry, the type is the initial one, the
\* contents are cleared and analyzed is false.
C30_DirtyClearsAll ==
  /\ (variant = "vinyl" /\ last.op = "file.reset")
       => /\ After.history = <<initialPath(Prior)>>
          /\ type(After) = initialType(Prior)
          /\ After.contents = Null
  /\ (variant = "plain" /\ last.op = "file.dirty")
       => /\ After.type = initialTypePlain(Prior)
          /\ After.contents \in {Null, Undefined}
          /\ After.analyzed = FALSE

\* C30 (amended): reset() of lib/file.js cuts the history to its first entry,
\* so that path and type are the initial ones, and clears the contents; it
\* changes nothing else. dirty() of the earlier File sets the type back to the
\* initial type and analyzed to false; it leaves the path and the contents.
\* A second call of either changes nothing further.
C30_ResetAndDirty ==
  /\ (variant = "vinyl" /\ last.op = "file.reset")
       => /\ After.history = <<initialPath(Prior)>>
          /\ type(After) = initialType(Prior)
          /\ After.contents = Null
          /\ After = [Prior EXCEPT !.history = After.history, !.contents = Null]
          /\ reset(After) = After
          /\ Post = [Pre EXCEPT !.val[last.args[1]] = After]
  /\ (variant = "plain" /\ last.op = "file.dirty")
       => /\ After.type = initialTypePlain(Prior)
          /\ After.analyzed = FALSE
          /\ After = [Prior EXCEPT !.type = After.type, !.analyzed = FALSE]
          /\ dirty(After) = After
          /\ Post = [Pre EXCEPT !.val[last.args[1]] = After]

\* C30 witness: dirty() on a File whose type was changed, that was analyzed
\* and that has contents, which it keeps.
C30_Witness ==
  /\ variant = "plain"
  /\ last.op = "file.dirty"
  /\ Prior.type # initialTypePlain(Prior)
  /\ Prior.analyzed = TRUE
  /\ After.contents = Buffer("a")

\* C25: for every tree t, Tree.fromString(t.toString()) returns a tree with
\* the file ids of t, the dependency edges of t in the same direction, and
\* files whose histories (and so paths), contents and dates equal those of t.
C25_RoundTrip ==
  (variant = "vinyl" /\ last.op = "fromString")
    => /\ last.err = "none"
       /\ last.ret.v = [i \in 1..Len(Pre.v) |-> StringValue(Pre.v[i])]
       /\ Range(last.ret.e) =
            {<<StringValue(ed[1]), StringValue(ed[2])>> : ed \in Range(Pre.e)}
       /\ \A k \in Range(Pre.v) :
            LET file == last.ret.val[StringValue(k)]
            IN  /\ file.id = StringValue(k)
                /\ file.history = [h \in 1..Len(Pre.val[k].history) |->
                                     StringValue(Pre.val[k].history[h])]
                /\ file.contents = Pre.val[k].contents
                /\ IF Pre.val[k].modified = Null
                   THEN file.modified = Null
                   ELSE file.modified.kind = "date"
                        /\ file.modified.text = Pre.val[k].modified.time

\* The edge a cycle loses in removeCycles: it leaves the first vertex of the
\* cycle that has the highest out-degree in g and enters the vertex after it
\* in the cycle, the first one when the chosen vertex is the last.
PickedEdge(g, cycle) ==
  LET Top(i) == \A j \in 1..Len(cycle) :
                  Cardinality({ed \in Range(g.e) : ed[1] = cycle[j]})
                    <= Cardinality({ed \in Range(g.e) : ed[1] = cycle[i]})
      h == CHOOSE i \in 1..Len(cycle) : Top(i) /\ \A j \in 1..(i - 1) : ~Top(j)
  IN  <<cycle[h], cycle[(h % Len(cycle)) + 1]>>

Without(g, ed) == [g EXCEPT !.e = SelectSeq(g.e, LAMBDA x : x # ed)]

\* The graphs a call of removeCycles goes through, one per reported cycle,
\* when each cycle loses its picked edge: Steps(g, cs)[i] is the graph the
\* i-th cycle finds.
RECURSIVE Steps(_, _)
Steps(g, cs) ==
  IF cs = <<>> THEN <<g>>
  ELSE <<g>> \o Steps(Without(g, PickedEdge(g, Head(cs))), Tail(cs))

\* C31 (as claimed): in removeCycles(), every cycle reported by cycles()
\* loses exactly one edge, the edge from its vertex of highest out-degree
\* (the first such vertex in cycle order) to the next vertex of the cycle
\* (the first one after the last): the edge is there when the cycle's turn
\* comes, and the call ends with the tree less these edges.
C31_EachCycleLosesOneEdge ==
  (variant \in {"id", "cyc"} /\ last.op = "removeCycles")
    => LET cs == cycles(Pre)
           gs == Steps(Pre, cs)
       IN  /\ last.err = "none"
           /\ Post = gs[Len(gs)]
           /\ \A i \in 1..Len(cs) : PickedEdge(gs[i], cs[i]) \in Range(gs[i].e)

\* C31: in removeCycles(), every cycle reported by cycles() loses at most one
\* edge: the edge from its vertex of highest out-degree at that moment (the
\* first such vertex in cycle order) to the next vertex of the cycle (the
\* first one after the last), when an earlier cycle of the same call has not
\* taken that edge already; the call removes nothing else.
C31_EachCycleLosesPickedEdge ==
  (variant \in {"id", "cyc"} /\ last.op = "removeCycles")
    => LET cs == cycles(Pre)
           gs == Steps(Pre, cs)
       IN  /\ last.err = "none"
           /\ Post = gs[Len(gs)]
           /\ \A i \in 1..Len(cs) :
                Len(gs[i].e) - Len(gs[i + 1].e) =
                  IF PickedEdge(gs[i], cs[i]) \in Range(gs[i].e) THEN 1 ELSE 0

\* C31 witness: a call on a tree with two cycles in which the picked vertex
\* of a cycle is neither its first vertex nor the only one of highest
\* out-degree in the tree, and in which a later cycle picks an edge that is
\* gone by then.
C31_Witness ==
  /\ variant = "cyc"
  /\ last.op = "removeCycles"
  /\ last.err = "none"
  /\ LET cs == cycles(Pre)
         gs == Steps(Pre, cs)
     IN  /\ Len(cs) >= 2
         /\ \E i \in 1..Len(cs) : PickedEdge(gs[i], cs[i])[1] # cs[i][1]
         /\ \E i \in 1..Len(cs) : PickedEdge(gs[i], cs[i]) \notin Range(gs[i].e)

\* C32: in the Tree with automatic cleanup, moveDependency(from, to, child)
\* with from depending on child and to not in the tree throws in its first
\* statement and leaves the tree as it was: the files and their File objects
\* are the same, from still depends on child, and no edge was added.
C32_FailedMoveChangesNothing ==
  (variant = "gc" /\ last.op \in {"moving", "moveDependency"}
     /\ hasDependencyGc(Pre, last.args[1], last.args[3])
     /\ ~hasFile(Pre, last.args[2]))
    => /\ last.op = "moveDependency"
       /\ last.err = "VertexNotExistsError"
       /\ vertices = Pre.v
       /\ edges = Pre.e
       /\ files = Pre.val
       /\ hasDependencyGc(Post, last.args[1], last.args[3])
       /\ hasFile(Post, last.args[3])

\* C32 witness: a move to a file that is not in the tree failed, on a tree
\* in which child has from as its only dependant and another dependency
\* exists.
C32_Witness ==
  /\ variant = "gc"
  /\ last.op = "moveDependency"
  /\ last.err = "VertexNotExistsError"
  /\ hasDependencyGc(Pre, last.args[1], last.args[3])
  /\ ~hasFile(Pre, last.args[2])
  /\ inDegree(Pre, last.args[3]) = 1
  /\ Len(Pre.e) >= 2

C35_PruneThrowsOnCycle ==
  (variant = "id" /\ last.op = "prune" /\ ~Acyclic(Pre)
     /\ Range(last.args) \subseteq Range(Pre.v))
    => /\ last.err = "CycleError"
       /\ vertices = Pre.v
       /\ edges = Pre.e
       /\ files = Pre.val

\* C35 witness: prune threw on a tree whose cycle is among the anchor and
\* its dependencies, with a third file that no anchor reaches.
C35_Witness ==
  /\ variant = "id"
  /\ last.op = "prune"
  /\ last.err = "CycleError"
  /\ Len(last.args) = 1
  /\ last.args[1] \in DepsOf(Pre, last.args[1])
  /\ \E k \in Range(vertices) : k \notin DepsOf(Pre, last.args[1])

\* C36: prune(anchors) leaves the kept files as they were: every file of the
\* tree was there before, with the same File and in the same order; the edges
\* are exactly the edges from before whose two ends are kept, in the same
\* order; and every direct dependency that a kept file had is kept.
C36_PruneFrame ==
  (variant = "id" /\ last.op = "prune")
    => LET kept == Range(vertices)
       IN  /\ vertices = SelectSeq(Pre.v, LAMBDA k : k \in kept)
           /\ \A k \in kept : files[k] = Pre.val[k]
           /\ edges = SelectSeq(Pre.e, LAMBDA ed : ed[1] \in kept /\ ed[2] \in kept)
           /\ \A ed \in Range(Pre.e) : ed[2] \in kept => ed[1] \in kept

\* C36 witness: prune removed a file that depended on a kept file, and kept
\* a dependency of the anchor with the edge between them.
C36_Witness ==
  /\ variant = "id"
  /\ last.op = "prune"
  /\ last.err = "none"
  /\ edges # <<>>
  /\ Len(edges) < Len(Pre.e)
  /\ \E ed \in Range(Pre.e) : ed[1] \in Range(vertices) /\ ed[2] \notin Range(vertices)

\* C37: removeCycles() returns with the files and their File objects as they
\* were and with edges that were there before, in their order; every edge it
\* has removed was on a cycle of the tree as the call found it (its target
\* had a path back to its source), and an acyclic tree is left as it was.
C37_RemoveCyclesFrame ==
  (variant \in {"id", "cyc"} /\ last.op = "removeCycles")
    => /\ last.err = "none"
       /\ vertices = Pre.v
       /\ files = Pre.val
       /\ edges = SelectSeq(Pre.e, LAMBDA ed : ed \in Range(edges))
       /\ \A ed \in Range(Pre.e) \ Range(edges) : ed[2] \in DepsOf(Pre, ed[1])
       /\ Acyclic(Pre) => edges = Pre.e

\* C37 witness: removeCycles took an edge from a cycle of a tree that also
\* has an edge on no cycle, leaving the picked vertex's other edge in place.
C37_Witness ==
  /\ variant = "cyc"
  /\ last.op = "removeCycles"
  /\ last.err = "none"
  /\ Len(edges) < Len(Pre.e)
  /\ \E ed \in Range(edges) :
       /\ ed[2] \notin DepsOf(Pre, ed[1])
       /\ \E gone \in Range(Pre.e) \ Range(edges) : gone[1] = ed[1]

\* C38: in every state of the tree and for all of its files x and y, y is
\* among dependenciesOf(x) exactly when x is among dependantsOf(y), for the
\* direct form of the two queries and for the recursive one.
C38_QueriesAreConverse ==
  variant \in {"id", "cyc"}
    => \A x \in Range(vertices), y \in Range(vertices), recursive \in BOOLEAN :
         (y \in IdsOf(dependenciesOf(Post, x, recursive).ret))
           <=> (x \in IdsOf(dependantsOf(Post, y, recursive).ret))

\* C38 witness: a recursive dependantsOf returned two files for a file with
\* one direct dependant, on a tree of three files in which the queried file
\* is no dependant of itself.
C38_Witness ==
  /\ variant = "id"
  /\ last.op = "dependantsOf"
  /\ last.args[2]
  /\ last.err = "none"
  /\ Len(last.ret) = 2
  /\ Len(dependantsOf(Post, last.args[1], FALSE).ret) = 1
  /\ last.args[1] \notin IdsOf(last.ret)
  /\ \A k \in IdsOf(last.ret) :
       last.args[1] \in IdsOf(dependenciesOf(Post, k, TRUE).ret)

\* C39: in the Tree with automatic cleanup, moveDependency(p, p, child) with
\* p depending on child changes the tree: the first statement finds the edge
\* there and adds nothing, the second removes it, so that p does not depend
\* on child afterwards, and a child that only p depended on is no longer in
\* the tree.
C39_SelfMoveRemoves ==
  (variant = "gc" /\ last.op = "moveDependency"
     /\ last.args[1] = last.args[2]
     /\ hasDependencyGc(Pre, last.args[1], last.args[3]))
    => /\ ~hasDependencyGc(Post, last.args[1], last.args[3])
       /\ Range(edges) = Range(Pre.e) \ Incident(Pre, last.args[3])
            \/ Range(edges) = Range(Pre.e) \ {<<last.args[1], last.args[3]>>}
       /\ inDegree(Pre, last.args[3]) = 1 => ~hasFile(Post, last.args[3])
       /\ inDegree(Pre, last.args[3]) > 1 => hasFile(Post, last.args[3])

====
